---- MODULE Spec2Model ----
(***************************************************************************)
(* GVCP control connection of spectralcam (gige/gvcp.py, class GVCP):      *)
(* the request/reply engine (_request, _exec_request, _handle_ack), the    *)
(* request-id allocator (GVCPRequestId), connect / disconnect and the      *)
(* heartbeat thread, run by the two long-lived actors of a connection:     *)
(* the caller thread and the heartbeat thread.                             *)
(*                                                                         *)
(* Granularity: one action per statement that reads or writes state shared *)
(* between threads.  socket.recv and the _handle_ack call that consumes    *)
(* its data are one step; a block executed entirely under _soc_lock whose  *)
(* intermediate states no lock-free reader can tell apart is one step.     *)
(***************************************************************************)
EXTENDS Integers, Sequences, FiniteSets, TLC

\* ---------------------------------------------------------------- constants
REG_CCP == 2560
REG_HEARTBEAT_TIMEOUT == 2360
VAL_CONTROL_ACCESS == 2
SocTimeoutMs == 500
HeartbeatTimeoutMs == 5000
Retries == 3
MaxRequestId == 65535
PendingMarginMs == 10

\* ------------------------------------------------------------------- bounds
\* request-ids the connection model allocates (the allocator itself is
\* explored over its whole 16-bit range by SpecAlloc)
MaxAlloc == 5
\* PENDING acks the device sends for one request
MaxPending == 2
\* extended timeouts (ms) a PENDING ack proposes
PendingShort == 1000
PendingLong == 2000

Threads == {"caller", "heartbeat"}
RegVals == {0, VAL_CONTROL_ACCESS}
PendTimes == {PendingShort, PendingLong}
NoAck == [id |-> 0, code |-> "none", sev |-> FALSE, lenok |-> TRUE, val |-> 0, ptime |-> 0]
NoReq == [cmd |-> "none", addr |-> 0, val |-> 0, ack |-> FALSE]

VARIABLES
  soc,                \* GVCP._soc: "None", or the socket object: "open" / "closed"
  timeout,            \* timeout (ms) of the socket object _soc refers to; 0 without one
  soc_lock,           \* GVCP._soc_lock: "free" or the thread that acquired it
  req_id,             \* GVCPRequestId.__req_id
  pending,            \* GVCP._pending
  heartbeat_disable,  \* GVCP._heartbeat_disable (Event)
  heartbeat_thread,   \* GVCP._heartbeat_thread is not None
  pc,                 \* position of each thread
  op,                 \* public operation each thread is in
  req,                \* command object each thread built
  rid,                \* request.req_id of that command
  retry,              \* argument retry of _exec_request
  rx,                 \* datagram the thread's last socket.recv returned (NoAck: none)
  result,             \* how the thread's last operation ended
  xmit,               \* history: transmissions of the current command
  seen,               \* history: PENDING timeouts received for the current command
  log,                \* history: what the caller's current operation did, in order
  nOpen,              \* history: socket objects created and not closed
  ccp_last,           \* history: value of the last successful READREG(CCP); -1: none yet
  ccp_own,            \* history: the same, counting only the reads of connect and _heartbeat
  buffer,             \* FXBase.buffer: the recorded frames
  support,            \* GVCP.concat_support, writemem_support, action_support, scheduled_action_support
  capability,         \* the device's GVCP_CAPABILITY register
  call,               \* history: the public method last called with its arguments
  api_result,         \* history: how that call ended
  sent,               \* history: the commands that call sent, in order
  ret,                \* history: the value that call returned
  record,             \* FXBase.record
  frame_cb,           \* FXBase.frame_cb: "None", or "set" for a user function
  preview,            \* FXBase.preview: "None", or its window "hidden" / "visible"
  pushed,             \* history: the frame handled last was pushed to the preview
  receiving,          \* the receive task of the GVSP module is running
  block,              \* GVSP receiver: block-id of the frame assembled last; 0: none yet
  assembling,         \* GVSP receiver: that frame is still in progress
  marks,              \* GVSP receiver: sequence numbers of its data packets received
  loss,               \* GVSP receiver: the loss counter
  frames,             \* history: the calls of the frame callback, in order
  trailers,           \* history: trailers received, per block-id
  npk,                \* history: packets received
  scp_port,           \* the device's register GevSCPHostPort; 0: no stream destination
  gvsp_open,          \* the GVSP socket of open_stream exists
  gvsp_parts,         \* what the GVSP receiver holds besides: "frame_cb", "buffer"
  dark,               \* dark_ref_acquire waiting for its frames: its old_cb and frame_no
  fx_call,            \* history: the FXBase method called last
  fx_result,          \* history: how that call ended
  fx_log,             \* history: what that call did, in order
  fx_ret,             \* history: what that call returned
  intf_open,          \* per host interface: GCSystem holds an open GCInterface for it
  intf_req_id,        \* per host interface: GCInterface._req_id of that object
  existing_devs,      \* per host interface: GCInterface._existing_devs, the device catalog
  open_devs,          \* per host interface: the open devices of GCInterface._open_devs (MACs)
  gt_call,            \* history: the GCInterface / GCSystem method called last, with its arguments
  gt_result,          \* history: how that call ended
  gt_sent,            \* history: the datagrams that call sent, in order
  gt_rx,              \* history: the datagrams that call received, per socket
  gt_ret,             \* history: what that call returned
  sys_open,           \* GCSystem._is_open
  closed_intfs        \* interfaces of which the caller holds a closed GCInterface object

vars == <<soc, timeout, soc_lock, req_id, pending, heartbeat_disable, heartbeat_thread,
          pc, op, req, rid, retry, rx, result, xmit, seen, log, nOpen, ccp_last, ccp_own,
          buffer, support, capability, call, api_result, sent, ret,
          record, frame_cb, preview, pushed, receiving, block, assembling, marks, loss,
          frames, trailers, npk, scp_port, gvsp_open, gvsp_parts, dark, fx_call, fx_result, fx_log, fx_ret,
          intf_open, intf_req_id, existing_devs, open_devs, gt_call, gt_result, gt_sent, gt_rx, gt_ret,
          sys_open, closed_intfs>>

shared == <<soc, timeout, soc_lock, req_id, pending, heartbeat_disable, heartbeat_thread, nOpen>>

\* the history of CCP reads
hist == <<ccp_last, ccp_own>>

\* the variables of the other parts of the program, which the connection leaves alone
stream == <<record, frame_cb, preview, pushed, receiving, block, assembling, marks, loss,
            frames, trailers, npk>>
\* the stream channel and the FXBase method in progress or called last
fx == <<scp_port, gvsp_open, gvsp_parts, dark, fx_call, fx_result, fx_log, fx_ret>>
\* the interfaces of the host and the GCInterface / GCSystem method called last
gentl == <<intf_open, intf_req_id, existing_devs, open_devs, gt_call, gt_result, gt_sent, gt_rx, gt_ret,
           sys_open, closed_intfs>>
elsewhere == <<buffer, support, capability, call, api_result, sent, ret, stream, fx, gentl>>

\* ------------------------------------------------------------ pure functions
\* mutant: the counter wraps as a plain 16-bit counter, through 0
NextRequestId_zero(r) == (r + 1) % (MaxRequestId + 1)

\* GVCPRequestId.get: the value __req_id takes after handing out r
NextRequestId(r) == IF r + 1 > MaxRequestId THEN 1 ELSE r + 1

\* ack code the typed ack class of a command accepts
AckCode(cmd) == IF cmd = "READREG" THEN "READREG_ACK" ELSE "WRITEREG_ACK"

\* a request-id other than r that an ack can carry: the one handed out before r
StaleId(r) == IF r = 1 THEN MaxRequestId ELSE r - 1

\* datagrams the socket can deliver in answer to command c carrying request-id r
Acks(r, c) ==
  {[id |-> r, code |-> AckCode(c.cmd), sev |-> FALSE, lenok |-> TRUE, val |-> v, ptime |-> 0] :
      v \in (IF c.cmd = "READREG" THEN RegVals ELSE {0})}
  \cup {[id |-> r, code |-> "PENDING_ACK", sev |-> FALSE, lenok |-> TRUE, val |-> 0, ptime |-> p] :
      p \in PendTimes}
  \cup {[id |-> i, code |-> AckCode(c.cmd), sev |-> s, lenok |-> TRUE, val |-> 0, ptime |-> 0] :
      i \in {r, StaleId(r)}, s \in BOOLEAN}
  \cup {[id |-> r, code |-> AckCode(c.cmd), sev |-> FALSE, lenok |-> FALSE, val |-> 0, ptime |-> 0]}
  \cup {[id |-> r, code |-> AckCode(IF c.cmd = "READREG" THEN "WRITEREG" ELSE "READREG"),
         sev |-> FALSE, lenok |-> TRUE, val |-> 0, ptime |-> 0]}

\* mutant: a datagram whose declared length differs from its size is parsed all the same
GVCPAck_from_bytes_any_length(a) ==
  IF a.sev THEN "AckError"
  ELSE "none"

\* GVCPAck.__from_bytes: the exception parsing raises, "none" when it returns
GVCPAck_from_bytes(a) ==
  IF ~a.lenok THEN "AckLengthError"
  ELSE IF a.sev THEN "AckError"
  ELSE "none"

\* mutant: the final ack clears _pending but leaves the extended timeout on the socket
handle_ack_keep_timeout(a, r, pend, tmo) ==
  LET e == GVCPAck_from_bytes(a) IN
  IF e # "none" THEN [err |-> e, pending |-> pend, timeout |-> tmo]
  ELSE IF a.id # r THEN [err |-> "AckIdError", pending |-> pend, timeout |-> tmo]
  ELSE IF a.code = "PENDING_ACK"
    THEN IF ~pend
           THEN [err |-> "none", pending |-> TRUE, timeout |-> a.ptime + PendingMarginMs]
           ELSE [err |-> "none", pending |-> pend, timeout |-> tmo]
  ELSE [err |-> "none", pending |-> FALSE, timeout |-> tmo]

\* GVCP._handle_ack: exception raised (or "none"), _pending and the socket timeout after it
handle_ack(a, r, pend, tmo) ==
  LET e == GVCPAck_from_bytes(a) IN
  IF e # "none" THEN [err |-> e, pending |-> pend, timeout |-> tmo]
  ELSE IF a.id # r THEN [err |-> "AckIdError", pending |-> pend, timeout |-> tmo]
  ELSE IF a.code = "PENDING_ACK"
    THEN IF ~pend
           THEN [err |-> "none", pending |-> TRUE, timeout |-> a.ptime + PendingMarginMs]
           ELSE [err |-> "none", pending |-> pend, timeout |-> tmo]
  ELSE IF pend THEN [err |-> "none", pending |-> FALSE, timeout |-> SocTimeoutMs]
  ELSE [err |-> "none", pending |-> pend, timeout |-> tmo]

\* GVCPReadRegAck / GVCPWriteRegAck __init__: the typed ack rejects another ack code
typed_ack(a, c) == IF c.ack /\ a.code # AckCode(c.cmd) THEN "AckValueError" ELSE "none"

\* a connected property that does not look at the socket
connected_always == TRUE

\* GVCP.connected
connected == soc # "None"

\* states in which the heartbeat thread has ended (or was never started)
Terminated == {"off", "stopped", "lost", "dead"}

\* a step of an operation that is no command, as an entry of the caller's log
Event(name) == [cmd |-> name, addr |-> 0, val |-> 0, ack |-> FALSE]

WriteCcp(v) == [cmd |-> "WRITEREG", addr |-> REG_CCP, val |-> v, ack |-> TRUE]
WriteHeartbeat == [cmd |-> "WRITEREG", addr |-> REG_HEARTBEAT_TIMEOUT, val |-> HeartbeatTimeoutMs, ack |-> TRUE]
ReadReg(a) == [cmd |-> "READREG", addr |-> a, val |-> 0, ack |-> TRUE]

\* ---------------------------------------------------------------------- Init
Features == {"concat", "writemem", "action", "scheduled_action"}
NoCall == [op |-> "none", n |-> 0, last |-> [hi |-> 0, lo |-> 0], nvals |-> 0, count |-> 0, ack |-> FALSE,
           sched |-> FALSE, rtype |-> "none", location |-> "none", extension |-> "none", path |-> FALSE]
NoRet == [kind |-> "none", words |-> <<>>]

\* block-ids of the frames the camera sends
MaxBlocks == 2
Blocks == 1..MaxBlocks

\* a method returned None (or raised)
NoFxRet == [rec |-> FALSE, frames |-> <<>>]

\* no dark_ref_acquire is waiting
NoDark == [on |-> FALSE, old_cb |-> "None", n |-> 0]

\* FXBase.__init__ without a preview factory: no stream channel is open, and a GVSP
\* receiver that has received nothing
InitStream ==
  /\ scp_port = 0
  /\ gvsp_open = FALSE
  /\ gvsp_parts = {}
  /\ dark = NoDark
  /\ fx_call = "none"
  /\ fx_result = "none"
  /\ fx_log = <<>>
  /\ fx_ret = NoFxRet
  /\ record = FALSE
  /\ frame_cb = "None"
  /\ preview = "None"
  /\ pushed = FALSE
  /\ receiving = FALSE
  /\ block = 0
  /\ assembling = FALSE
  /\ marks = {}
  /\ loss = 0
  /\ frames = <<>>
  /\ trailers = [b \in Blocks |-> 0]
  /\ npk = 0

\* the network interfaces of the host, in the order update_interface_list finds them
Intfs == <<"eth0", "eth1", "lo">>
IntfIds == {Intfs[k] : k \in 1..Len(Intfs)}
\* no GCInterface / GCSystem method was called
NoGtCall == [op |-> "none", intf |-> "none", force |-> FALSE, ack |-> FALSE, ack_bcast |-> "None", all |-> FALSE,
             ip |-> <<0, 0, 0, 0>>, netmask |-> <<>>, gateway |-> <<0, 0, 0, 0>>,
             mac |-> <<>>, vendor |-> "none", model |-> "none"]
\* nothing was returned: no device, no interface
NoGtRet == [device |-> <<>>, intf |-> "None", list |-> {}]

\* GCSystem.__init__: no interface is open
InitGentl ==
  /\ intf_open = [i \in IntfIds |-> FALSE]
  /\ intf_req_id = [i \in IntfIds |-> 1]
  /\ existing_devs = [i \in IntfIds |-> {}]
  /\ open_devs = [i \in IntfIds |-> {}]
  /\ gt_call = NoGtCall
  /\ gt_result = "none"
  /\ gt_sent = <<>>
  /\ gt_rx = <<>>
  /\ gt_ret = NoGtRet
  /\ sys_open = TRUE
  /\ closed_intfs = {}

\* GVCP.__init__ and FXBase.__init__, the socket left aside
InitObjects ==
  /\ InitStream
  /\ InitGentl
  /\ buffer = <<>>
  /\ support = [f \in Features |-> "None"]
  /\ call = NoCall
  /\ api_result = "none"
  /\ sent = <<>>
  /\ ret = NoRet

\* no thread is inside a public method; the request-id allocator is fresh
InitEngine ==
  /\ soc_lock = "free"
  /\ req_id = 1
  /\ pending = FALSE
  /\ heartbeat_disable = FALSE
  /\ heartbeat_thread = FALSE
  /\ pc = [t \in Threads |-> IF t = "heartbeat" THEN "off" ELSE "idle"]
  /\ op = [t \in Threads |-> "none"]
  /\ req = [t \in Threads |-> NoReq]
  /\ rid = [t \in Threads |-> 0]
  /\ retry = [t \in Threads |-> 0]
  /\ rx = [t \in Threads |-> NoAck]
  /\ result = [t \in Threads |-> "none"]
  /\ xmit = [t \in Threads |-> 0]
  /\ seen = [t \in Threads |-> <<>>]
  /\ log = <<>>
  /\ nOpen = 0
  /\ ccp_last = -1
  /\ ccp_own = -1

Init ==
  /\ InitObjects
  /\ InitEngine
  /\ capability = 0
  /\ soc = "None"
  /\ timeout = 0


\* ------------------------------------------------------- control-flow helpers
\* the locals of _request / _exec_request of thread t are gone (the call ended)
EndRequest(t) ==
  /\ rid' = [rid EXCEPT ![t] = 0]
  /\ retry' = [retry EXCEPT ![t] = 0]
  /\ xmit' = [xmit EXCEPT ![t] = 0]
  /\ seen' = [seen EXCEPT ![t] = <<>>]

\* an exception e leaves thread t's operation (the lock is dealt with by the step
\* that raises): a caller's operation ends with e; the heartbeat thread turns
\* socket.timeout into ccp_status = 0 and dies of anything else
Raise(t, e) ==
  /\ pc' = [pc EXCEPT ![t] = IF t # "heartbeat" THEN "idle"
                               ELSE IF e = "timeout" THEN "hb_close" ELSE "dead"]
  /\ result' = [result EXCEPT ![t] = IF t = "heartbeat" /\ e = "timeout" THEN @ ELSE e]
  /\ req' = [req EXCEPT ![t] = NoReq]
  /\ EndRequest(t)
  /\ UNCHANGED <<op, heartbeat_thread>>

\* mutant: connect starts the heartbeat whatever CCP reads back
ccp_granted_any(v) == TRUE

\* whether connect starts the heartbeat thread on the CCP value it read back
ccp_granted(v) == v = VAL_CONTROL_ACCESS

\* mutant: the heartbeat thread never notices that control was lost
heartbeat_alive_any(v) == TRUE

\* mutant: the heartbeat thread goes on when CCP reads 0 (nobody in control)
heartbeat_alive_lenient(v) == v \in {0, VAL_CONTROL_ACCESS}

\* whether the heartbeat thread keeps the connection on the CCP value it read
heartbeat_alive(v) == v = VAL_CONTROL_ACCESS

\* the request connect issues after request c, NoReq after the last one
connect_next(c) ==
  IF c = WriteCcp(VAL_CONTROL_ACCESS) THEN WriteHeartbeat
  ELSE IF c = WriteHeartbeat THEN ReadReg(REG_CCP)
  ELSE NoReq

\* _request returned ack a (NoAck: no acknowledgement was asked for) to thread t
Returned(t, a) ==
  IF typed_ack(a, req[t]) # "none" THEN
    /\ Raise(t, typed_ack(a, req[t]))
    /\ rx' = [rx EXCEPT ![t] = a]
  ELSE IF op[t] \in {"readreg", "writereg"} THEN
    /\ pc' = [pc EXCEPT ![t] = "idle"]
    /\ result' = [result EXCEPT ![t] = "ok"]
    /\ req' = [req EXCEPT ![t] = NoReq]
    /\ rx' = [rx EXCEPT ![t] = a]
    /\ EndRequest(t)
    /\ UNCHANGED <<op, heartbeat_thread>>
  ELSE IF op[t] = "connect" /\ connect_next(req[t]) # NoReq THEN
    /\ pc' = [pc EXCEPT ![t] = "check"]
    /\ req' = [req EXCEPT ![t] = connect_next(@)]
    /\ rx' = [rx EXCEPT ![t] = NoAck]
    /\ EndRequest(t)
    /\ UNCHANGED <<op, result, heartbeat_thread>>
  ELSE IF op[t] = "connect" THEN
    /\ rx' = [rx EXCEPT ![t] = a, !["heartbeat"] = IF ccp_granted(a.val) THEN NoAck ELSE @]
    /\ EndRequest(t)
    /\ IF ccp_granted(a.val) THEN
         /\ pc' = [pc EXCEPT ![t] = "idle", !["heartbeat"] = "hb_loop"]
         /\ op' = [op EXCEPT !["heartbeat"] = "heartbeat"]
         /\ req' = [req EXCEPT ![t] = NoReq]
         /\ result' = [result EXCEPT ![t] = "ok", !["heartbeat"] = "none"]
         /\ heartbeat_thread' = TRUE
       ELSE
         /\ pc' = [pc EXCEPT ![t] = "connect_fail"]
         /\ UNCHANGED <<op, req, result, heartbeat_thread>>
  ELSE IF op[t] = "disconnect" THEN
    /\ pc' = [pc EXCEPT ![t] = "join"]
    /\ rx' = [rx EXCEPT ![t] = NoAck]
    /\ EndRequest(t)
    /\ UNCHANGED <<op, req, result, heartbeat_thread>>
  ELSE \* the heartbeat thread's READREG(CCP)
    /\ pc' = [pc EXCEPT ![t] = IF heartbeat_alive(a.val) THEN "hb_loop" ELSE "hb_close"]
    /\ rx' = [rx EXCEPT ![t] = IF heartbeat_alive(a.val) THEN NoAck ELSE a]
    /\ req' = [req EXCEPT ![t] = NoReq]
    /\ EndRequest(t)
    /\ UNCHANGED <<op, result, heartbeat_thread>>

\* a thread starts public operation o, whose first command is c
Begin(t, o, c) ==
  /\ op' = [op EXCEPT ![t] = o]
  /\ req' = [req EXCEPT ![t] = c]
  /\ rx' = [rx EXCEPT ![t] = NoAck]
  /\ UNCHANGED <<rid, retry, xmit, seen>>

\* --------------------------------------------------------- request/reply engine
\* "if not self.connected: raise NotConnectedError" of readreg / writereg
check(t) ==
  /\ UNCHANGED <<hist, elsewhere>>
  /\ pc[t] = "check"
  /\ IF connected
       THEN /\ pc' = [pc EXCEPT ![t] = "get_id"]
            /\ UNCHANGED <<result, req>>
       ELSE /\ pc' = [pc EXCEPT ![t] = "idle"]
            /\ result' = [result EXCEPT ![t] = "NotConnectedError"]
            /\ req' = [req EXCEPT ![t] = NoReq]
  /\ UNCHANGED <<shared, op, rid, retry, rx, xmit, seen, log>>

\* GVCPRequestId.get, "req_id = self.__req_id"
get_read(t) ==
  /\ UNCHANGED <<hist, elsewhere>>
  /\ pc[t] = "get_id"
  /\ req_id <= MaxAlloc
  /\ rid' = [rid EXCEPT ![t] = req_id]
  /\ pc' = [pc EXCEPT ![t] = "get_id_w"]
  /\ UNCHANGED <<shared, op, req, retry, rx, result, xmit, seen, log>>

\* GVCPRequestId.get, "self.__req_id += 1" and the wrap; the command is built
get_write(t) ==
  /\ UNCHANGED <<hist, elsewhere>>
  /\ pc[t] = "get_id_w"
  /\ req_id' = NextRequestId(rid[t])
  /\ pc' = [pc EXCEPT ![t] = "request"]
  /\ UNCHANGED <<soc, timeout, soc_lock, pending, heartbeat_disable, heartbeat_thread, nOpen,
                 op, req, rid, retry, rx, result, xmit, seen, log>>

\* mutant: _exec_request is entered without waiting for the lock
request_unlocked(t) ==
  /\ UNCHANGED <<hist, elsewhere>>
  /\ pc[t] = "request"
  /\ soc_lock' = t
  /\ retry' = [retry EXCEPT ![t] = 1]
  /\ pc' = [pc EXCEPT ![t] = "send"]
  /\ UNCHANGED <<soc, timeout, req_id, pending, heartbeat_disable, heartbeat_thread, nOpen,
                 op, req, rid, rx, result, xmit, seen, log>>

\* _request: self._soc_lock.acquire(), then _exec_request(request, 1)
request(t) ==
  /\ UNCHANGED <<hist, elsewhere>>
  /\ pc[t] = "request"
  /\ soc_lock = "free"
  /\ soc_lock' = t
  /\ retry' = [retry EXCEPT ![t] = 1]
  /\ pc' = [pc EXCEPT ![t] = "send"]
  /\ UNCHANGED <<soc, timeout, req_id, pending, heartbeat_disable, heartbeat_thread, nOpen,
                 op, req, rid, rx, result, xmit, seen, log>>

\* what using self._soc raises when it is None or closed, "none" when it is usable
soc_error == IF soc = "None" THEN "AttributeError" ELSE IF soc = "closed" THEN "OSError" ELSE "none"

\* _exec_request: self._soc.send(request.data)
send(t) ==
  /\ UNCHANGED <<hist, elsewhere>>
  /\ pc[t] = "send"
  /\ UNCHANGED <<soc, timeout, req_id, pending, heartbeat_disable, nOpen>>
  /\ IF soc_error # "none" THEN
       /\ soc_lock' = "free"
       /\ Raise(t, soc_error)
       /\ UNCHANGED <<rx, log>>
     ELSE
       /\ log' = IF t = "caller" /\ retry[t] = 1 THEN Append(log, req[t]) ELSE log
       /\ IF req[t].ack
            THEN /\ pc' = [pc EXCEPT ![t] = "recv"]
                 /\ xmit' = [xmit EXCEPT ![t] = @ + 1]
                 /\ UNCHANGED <<soc_lock, op, req, result, heartbeat_thread, rid, retry, rx, seen>>
            ELSE /\ soc_lock' = "free"
                 /\ Returned(t, NoAck)

\* _exec_request: self._soc.recv raised socket.timeout
recv_timeout(t) ==
  /\ UNCHANGED <<hist, elsewhere>>
  /\ pc[t] = "recv"
  /\ soc_error = "none"
  /\ UNCHANGED <<soc, timeout, req_id, pending, heartbeat_disable, nOpen, rx, log>>
  /\ IF retry[t] < Retries
       THEN /\ retry' = [retry EXCEPT ![t] = @ + 1]
            /\ pc' = [pc EXCEPT ![t] = "send"]
            /\ UNCHANGED <<soc_lock, op, req, result, heartbeat_thread, rid, xmit, seen>>
       ELSE /\ soc_lock' = "free"
            /\ Raise(t, "timeout")

\* _exec_request: self._soc.recv on a socket that is None or closed
recv_error(t) ==
  /\ UNCHANGED <<hist, elsewhere>>
  /\ pc[t] = "recv"
  /\ soc_error # "none"
  /\ soc_lock' = "free"
  /\ Raise(t, soc_error)
  /\ UNCHANGED <<soc, timeout, req_id, pending, heartbeat_disable, nOpen, rx, log>>

\* _exec_request: self._soc.recv returned datagram a and _handle_ack consumed it
recv(t, a) ==
  LET h == handle_ack(a, rid[t], pending, timeout) IN
  /\ pc[t] = "recv"
  /\ soc_error = "none"
  /\ a.code = "PENDING_ACK" => Len(seen[t]) < MaxPending
  /\ pending' = h.pending
  /\ timeout' = h.timeout
  /\ UNCHANGED <<soc, req_id, heartbeat_disable, nOpen, log, elsewhere>>
  /\ IF h.err = "none" /\ ~h.pending /\ typed_ack(a, req[t]) = "none" /\ req[t] = ReadReg(REG_CCP)
       THEN /\ ccp_last' = a.val
            /\ ccp_own' = IF op[t] \in {"connect", "heartbeat"} THEN a.val ELSE ccp_own
       ELSE UNCHANGED hist
  /\ IF h.err # "none" THEN
       /\ soc_lock' = "free"
       /\ Raise(t, h.err)
       /\ rx' = [rx EXCEPT ![t] = a]
     ELSE IF h.pending THEN
       /\ rx' = [rx EXCEPT ![t] = a]
       /\ seen' = [seen EXCEPT ![t] = IF a.code = "PENDING_ACK" THEN Append(@, a.ptime) ELSE @]
       /\ UNCHANGED <<soc_lock, pc, op, req, result, heartbeat_thread, rid, retry, xmit>>
     ELSE
       /\ soc_lock' = "free"
       /\ Returned(t, a)

\* _exec_request: "ack = self._soc.recv(...)" with whatever datagram arrives
recv_ack(t) == \E a \in Acks(rid[t], req[t]) : recv(t, a)

\* ------------------------------------------------------------ public operations
\* readreg(REG_CCP, int) called by the caller
readreg(t) ==
  /\ UNCHANGED <<hist, elsewhere>>
  /\ t = "caller"
  /\ pc[t] = "idle"
  /\ IF connected
       THEN /\ pc' = [pc EXCEPT ![t] = "get_id"]
            /\ result' = [result EXCEPT ![t] = "none"]
            /\ Begin(t, "readreg", ReadReg(REG_CCP))
       ELSE /\ pc' = [pc EXCEPT ![t] = "idle"]
            /\ result' = [result EXCEPT ![t] = "NotConnectedError"]
            /\ Begin(t, "readreg", NoReq)
  /\ log' = <<>>
  /\ UNCHANGED shared

\* writereg(REG_HEARTBEAT_TIMEOUT, ms, ack) called by the caller (the heartbeat_timeout
\* setter), with or without an acknowledgement asked for
writereg(t) ==
  /\ UNCHANGED <<hist, elsewhere>>
  /\ t = "caller"
  /\ pc[t] = "idle"
  /\ IF connected
       THEN /\ pc' = [pc EXCEPT ![t] = "get_id"]
            /\ result' = [result EXCEPT ![t] = "none"]
            /\ \E k \in BOOLEAN : Begin(t, "writereg", [WriteHeartbeat EXCEPT !.ack = k])
       ELSE /\ pc' = [pc EXCEPT ![t] = "idle"]
            /\ result' = [result EXCEPT ![t] = "NotConnectedError"]
            /\ Begin(t, "writereg", NoReq)
  /\ log' = <<>>
  /\ UNCHANGED shared

\* connect: the call is made
connect(t) ==
  /\ UNCHANGED <<hist, elsewhere>>
  /\ t = "caller"
  /\ pc[t] = "idle"
  /\ Begin(t, "connect", WriteCcp(VAL_CONTROL_ACCESS))
  /\ pc' = [pc EXCEPT ![t] = "connect_open"]
  /\ result' = [result EXCEPT ![t] = "none"]
  /\ log' = <<>>
  /\ UNCHANGED shared

\* a connect that opens a socket without asking whether one is open already
connect_open_always(t) ==
  /\ UNCHANGED <<hist, elsewhere>>
  /\ pc[t] = "connect_open"
  /\ soc_lock = "free"
  /\ soc' = "open"
  /\ timeout' = SocTimeoutMs
  /\ nOpen' = nOpen + 1
  /\ pc' = [pc EXCEPT ![t] = "check"]
  /\ log' = Append(log, Event("open"))
  /\ UNCHANGED <<result, req>>
  /\ UNCHANGED <<soc_lock, req_id, pending, heartbeat_disable, heartbeat_thread,
                 op, rid, retry, rx, xmit, seen>>

\* connect: the block under _soc_lock that refuses a connected object or opens the socket
connect_open(t) ==
  /\ UNCHANGED <<hist, elsewhere>>
  /\ pc[t] = "connect_open"
  /\ soc_lock = "free"
  /\ IF connected THEN
       /\ pc' = [pc EXCEPT ![t] = "idle"]
       /\ result' = [result EXCEPT ![t] = "IsConnectedError"]
       /\ req' = [req EXCEPT ![t] = NoReq]
       /\ UNCHANGED <<soc, timeout, nOpen, log>>
     ELSE
       /\ soc' = "open"
       /\ timeout' = SocTimeoutMs
       /\ nOpen' = nOpen + 1
       /\ pc' = [pc EXCEPT ![t] = "check"]
       /\ log' = Append(log, Event("open"))
       /\ UNCHANGED <<result, req>>
  /\ UNCHANGED <<soc_lock, req_id, pending, heartbeat_disable, heartbeat_thread,
                 op, rid, retry, rx, xmit, seen>>

\* self._soc.close() on socket state s: the state after it and the sockets still open
close_soc(s, n) == [soc |-> "closed", nOpen |-> IF s = "open" THEN n - 1 ELSE n]

\* connect: CCP was not granted; close the socket under the lock and raise
connect_fail(t) ==
  /\ UNCHANGED <<hist, elsewhere>>
  /\ pc[t] = "connect_fail"
  /\ soc_lock = "free"
  /\ IF soc = "None" THEN
       /\ soc_lock' = t
       /\ result' = [result EXCEPT ![t] = "AttributeError"]
       /\ UNCHANGED <<soc, timeout, nOpen, log>>
     ELSE
       /\ soc' = "None"
       /\ timeout' = 0
       /\ nOpen' = close_soc(soc, nOpen).nOpen
       /\ result' = [result EXCEPT ![t] = "NotConnectedError"]
       /\ log' = Append(log, Event("close"))
       /\ UNCHANGED soc_lock
  /\ pc' = [pc EXCEPT ![t] = "idle"]
  /\ req' = [req EXCEPT ![t] = NoReq]
  /\ UNCHANGED <<req_id, pending, heartbeat_disable, heartbeat_thread,
                 op, rid, retry, rx, xmit, seen>>

\* disconnect: the connected check and self._heartbeat_disable.set()
disconnect(t) ==
  /\ UNCHANGED <<hist, elsewhere>>
  /\ t = "caller"
  /\ pc[t] = "idle"
  /\ IF connected THEN
       /\ heartbeat_disable' = TRUE
       /\ pc' = [pc EXCEPT ![t] = "check"]
       /\ result' = [result EXCEPT ![t] = "none"]
       /\ log' = <<Event("signal")>>
       /\ Begin(t, "disconnect", WriteCcp(0))
     ELSE
       /\ pc' = [pc EXCEPT ![t] = "idle"]
       /\ result' = [result EXCEPT ![t] = "NotConnectedError"]
       /\ log' = <<>>
       /\ Begin(t, "disconnect", NoReq)
       /\ UNCHANGED heartbeat_disable
  /\ UNCHANGED <<soc, timeout, soc_lock, req_id, pending, heartbeat_thread, nOpen>>

\* mutant: join returns without waiting for the thread
joined_nowait == TRUE

\* whether self._heartbeat_thread.join() returns in the current state
joined == pc["heartbeat"] \in Terminated

\* disconnect: self._heartbeat_thread.join() and self._heartbeat_disable.clear()
join(t) ==
  /\ UNCHANGED <<hist, elsewhere>>
  /\ pc[t] = "join"
  /\ IF ~heartbeat_thread THEN
       /\ pc' = [pc EXCEPT ![t] = "idle"]
       /\ result' = [result EXCEPT ![t] = "AttributeError"]
       /\ UNCHANGED <<heartbeat_disable, log>>
     ELSE
       /\ joined
       /\ heartbeat_disable' = FALSE
       /\ pc' = [pc EXCEPT ![t] = "disconnect_close"]
       /\ log' = Append(log, Event("join"))
       /\ UNCHANGED result
  /\ UNCHANGED <<soc, timeout, soc_lock, req_id, pending, heartbeat_thread, nOpen,
                 op, req, rid, retry, rx, xmit, seen>>

\* disconnect: the block under _soc_lock that closes the socket and drops it
disconnect_close(t) ==
  /\ UNCHANGED <<hist, elsewhere>>
  /\ pc[t] = "disconnect_close"
  /\ soc_lock = "free"
  /\ IF soc = "None" THEN
       /\ soc_lock' = t
       /\ result' = [result EXCEPT ![t] = "AttributeError"]
       /\ UNCHANGED <<soc, timeout, nOpen, log>>
     ELSE
       /\ soc' = "None"
       /\ timeout' = 0
       /\ nOpen' = close_soc(soc, nOpen).nOpen
       /\ result' = [result EXCEPT ![t] = "ok"]
       /\ log' = Append(log, Event("close"))
       /\ UNCHANGED soc_lock
  /\ pc' = [pc EXCEPT ![t] = "idle"]
  /\ req' = [req EXCEPT ![t] = NoReq]
  /\ UNCHANGED <<req_id, pending, heartbeat_disable, heartbeat_thread,
                 op, rid, retry, rx, xmit, seen>>

\* ------------------------------------------------------------- heartbeat thread
\* _heartbeat: "while not self._heartbeat_disable.is_set()"
hb_loop(t) ==
  /\ UNCHANGED <<hist, elsewhere>>
  /\ t = "heartbeat"
  /\ pc[t] = "hb_loop"
  /\ pc' = [pc EXCEPT ![t] = IF heartbeat_disable THEN "stopped" ELSE "hb_wait"]
  /\ UNCHANGED <<shared, op, req, rid, retry, rx, result, xmit, seen, log>>

\* _heartbeat: the wait returned; READREG(CCP) is built unless the stop event is set
hb_wait(t) ==
  /\ UNCHANGED <<hist, elsewhere>>
  /\ t = "heartbeat"
  /\ pc[t] = "hb_wait"
  /\ IF heartbeat_disable
       THEN /\ pc' = [pc EXCEPT ![t] = "hb_loop"]
            /\ UNCHANGED req
       ELSE /\ pc' = [pc EXCEPT ![t] = "get_id"]
            /\ req' = [req EXCEPT ![t] = ReadReg(REG_CCP)]
  /\ UNCHANGED <<shared, op, rid, retry, rx, result, xmit, seen, log>>

\* _heartbeat: self._soc.close(), outside the lock
hb_close(t) ==
  /\ UNCHANGED <<hist, elsewhere>>
  /\ t = "heartbeat"
  /\ pc[t] = "hb_close"
  /\ IF soc = "None" THEN
       /\ pc' = [pc EXCEPT ![t] = "dead"]
       /\ result' = [result EXCEPT ![t] = "AttributeError"]
       /\ UNCHANGED <<soc, nOpen>>
     ELSE
       /\ soc' = close_soc(soc, nOpen).soc
       /\ nOpen' = close_soc(soc, nOpen).nOpen
       /\ pc' = [pc EXCEPT ![t] = "hb_none"]
       /\ UNCHANGED result
  /\ UNCHANGED <<timeout, soc_lock, req_id, pending, heartbeat_disable, heartbeat_thread,
                 op, req, rid, retry, rx, xmit, seen, log>>

\* _heartbeat: self._soc = None and raise NotConnectedError, which ends the thread
hb_none(t) ==
  /\ UNCHANGED <<hist, elsewhere>>
  /\ t = "heartbeat"
  /\ pc[t] = "hb_none"
  /\ soc' = "None"
  /\ timeout' = 0
  /\ pc' = [pc EXCEPT ![t] = "lost"]
  /\ result' = [result EXCEPT ![t] = "NotConnectedError"]
  /\ UNCHANGED <<soc_lock, req_id, pending, heartbeat_disable, heartbeat_thread, nOpen,
                 op, req, rid, retry, rx, xmit, seen, log>>

\* ------------------------------------------------------------------------ Next
Next ==
  \E t \in Threads :
    \/ readreg(t)
    \/ writereg(t)
    \/ connect(t)
    \/ connect_open(t)
    \/ connect_fail(t)
    \/ disconnect(t)
    \/ join(t)
    \/ disconnect_close(t)
    \/ check(t)
    \/ get_read(t)
    \/ get_write(t)
    \/ request(t)
    \/ send(t)
    \/ recv_timeout(t)
    \/ recv_error(t)
    \/ recv_ack(t)
    \/ hb_loop(t)
    \/ hb_wait(t)
    \/ hb_close(t)
    \/ hb_none(t)

Spec == Init /\ [][Next]_vars

\* ------------------------------------------------- the allocator on its own
\* GVCPRequestId.get run to completion by one thread: it returns __req_id and
\* advances it; explored over the whole 16-bit range
get(t) ==
  /\ UNCHANGED <<hist, elsewhere>>
  /\ t = "caller"
  /\ rid' = [rid EXCEPT ![t] = req_id]
  /\ req_id' = NextRequestId(req_id)
  /\ UNCHANGED <<soc, timeout, soc_lock, pending, heartbeat_disable, heartbeat_thread, nOpen,
                 pc, op, req, retry, rx, result, xmit, seen, log>>

NextAlloc == \E t \in Threads : get(t)

SpecAlloc == Init /\ [][NextAlloc]_vars


\* the scheduler runs a runnable heartbeat thread: its teardown steps are taken
SpecLive == Spec /\ WF_vars(hb_close("heartbeat")) /\ WF_vars(hb_none("heartbeat"))

\* ----------------------------------- the public methods, argument by argument
\* The methods of class GVCP as one caller runs them from call to return: the
\* connected check, the capability probe, the command constructor's validation,
\* the request and the typed acknowledgement.

MASK_CONCAT == 1
MASK_WRITEMEM == 2
MASK_ACTION == 64
MASK_SCHEDULED_ACTION == 131072
REG_GVCP_CAPABILITY == 2356
REG_FIRST_URL == 512
REG_FIRST_URL_LEN == 512
MAX_READREG_ADDRS == 135
MAX_WRITEREG_ADDRS == 67
READMEM_MAX_PAYLOAD_SIZE == 536
\* an address is held as its two 16-bit halves, hi * HalfWord + lo with lo in
\* 0..HalfWord-1; hi is below 0 for a negative value and HalfWord or more for a
\* value of more than 32 bits
HalfWord == 65536
Addr(hi, lo) == [hi |-> hi, lo |-> lo]

\* a flag that is set whatever the register holds
FlagOf_set(cap, mask) == "True"

\* bool(capability & mask), as the flag's value
FlagOf(cap, mask) == IF (cap \div mask) % 2 = 1 THEN "True" ELSE "False"

\* _check_capability: the four flags a capability value gives
CapFlags(cap) ==
  [f \in Features |->
     FlagOf(cap, CASE f = "concat" -> MASK_CONCAT
                   [] f = "writemem" -> MASK_WRITEMEM
                   [] f = "action" -> MASK_ACTION
                   [] OTHER -> MASK_SCHEDULED_ACTION)]

\* utils.is_uint32_4_multiple
is_uint32_4_multiple(v) == v.hi >= 0 /\ v.hi <= HalfWord - 1 /\ v.lo % 4 = 0

\* the same for a byte count, which is small
is_count_4_multiple(v) == v >= 0 /\ v % 4 = 0

\* the address list of a call: n addresses, the last one being `last`
AddrList(n, last) == [i \in 1..n |-> IF i = n THEN last ELSE Addr(0, 4 * i)]

\* GVCPReadRegCmd.__init__: the exception it raises, "none" when it builds the command
GVCPReadRegCmd(addrs) ==
  IF Len(addrs) < 1 THEN "ValueError"
  ELSE IF Len(addrs) > MAX_READREG_ADDRS THEN "ValueError"
  ELSE IF \E i \in 1..Len(addrs) : ~is_uint32_4_multiple(addrs[i]) THEN "ValueError"
  ELSE "none"

\* GVCPWriteRegCmd.__init__ with nvals values
GVCPWriteRegCmd(addrs, nvals) ==
  IF Len(addrs) < 1 THEN "ValueError"
  ELSE IF Len(addrs) > MAX_WRITEREG_ADDRS THEN "ValueError"
  ELSE IF Len(addrs) # nvals THEN "ValueError"
  ELSE IF \E i \in 1..Len(addrs) : ~is_uint32_4_multiple(addrs[i]) THEN "ValueError"
  ELSE "none"

\* GVCPReadMemCmd.__init__
GVCPReadMemCmd(addr, count) ==
  IF ~is_uint32_4_multiple(addr) THEN "ValueError"
  ELSE IF count < 1 THEN "ValueError"
  ELSE IF ~is_count_4_multiple(count) THEN "ValueError"
  ELSE IF count > READMEM_MAX_PAYLOAD_SIZE THEN "ValueError"
  ELSE "none"

\* GVCPWriteMemCmd.__init__ with a value of value_len bytes
GVCPWriteMemCmd(addr, value_len) ==
  IF ~is_uint32_4_multiple(addr) THEN "ValueError"
  ELSE IF value_len < 1 THEN "ValueError"
  ELSE IF value_len > READMEM_MAX_PAYLOAD_SIZE THEN "ValueError"
  ELSE "none"

\* utils.uint32_to_bytes / bytes_to_uint32 (big endian)
uint32_to_bytes(v) == <<v \div 16777216, (v \div 65536) % 256, (v \div 256) % 256, v % 256>>
bytes_to_uint32(b) == b[1] * 16777216 + b[2] * 65536 + b[3] * 256 + b[4]

\* utils.bytes_to_uint32_list, for a buffer of whole words
bytes_to_uint32_list(b) ==
  [i \in 1..(Len(b) \div 4) |-> bytes_to_uint32(SubSeq(b, 4 * i - 3, 4 * i))]

\* the word the device holds at the i-th address asked for
DeviceWord(i) == CASE i = 1 -> 2 [] i = 2 -> 16909060 [] i = 3 -> 2147483647 [] OTHER -> 258

RECURSIVE DevicePayload(_)
\* payload of a READREG_ACK carrying k words
DevicePayload(k) == IF k = 0 THEN <<>> ELSE DevicePayload(k - 1) \o uint32_to_bytes(DeviceWord(k))

\* GVCPReadRegAck.__init__ on a payload of len bytes: the exception, or "none"
GVCPReadRegAck(len) == IF len < 4 THEN "AckLengthError" ELSE "none"

\* readreg: response.get_values(return_type) and the handling of the return type
readreg_return(payload, rtype) ==
  IF rtype = "bytes" THEN [kind |-> "bytes", words |-> payload]
  ELSE LET values == bytes_to_uint32_list(payload) IN
       IF Len(values) > 1 THEN [kind |-> "list", words |-> values]
       ELSE [kind |-> "scalar", words |-> <<values[1]>>]

\* inputs of the calls
GoodAddr == Addr(0, REG_CCP)
AddrSamples == {GoodAddr, Addr(HalfWord - 1, HalfWord - 4), Addr(0, 2),
                Addr(HalfWord, 0), Addr(-1, HalfWord - 4)}
ReadCounts == {0, 1, 2, MAX_READREG_ADDRS, MAX_READREG_ADDRS + 1}
WriteCounts == {0, 1, 2, MAX_WRITEREG_ADDRS, MAX_WRITEREG_ADDRS + 1}
MemCounts == {0, 2, 4, READMEM_MAX_PAYLOAD_SIZE, READMEM_MAX_PAYLOAD_SIZE + 4}
ValueLens == {0, 1, READMEM_MAX_PAYLOAD_SIZE, READMEM_MAX_PAYLOAD_SIZE + 1}
\* a count with every address sample for one address, with a good and an
\* unaligned last address for two, with good addresses otherwise
AddrArgs(counts) ==
  {a \in [n : counts, last : AddrSamples] :
     a.n = 1 \/ a.last = GoodAddr \/ (a.n = 2 /\ a.last = Addr(0, 2))}
\* an address with a good count, or a count with a good address
MemArgs(counts, good) ==
  {a \in [last : AddrSamples, count : counts] : a.last = GoodAddr \/ a.count = good}
Capabilities == {0, MASK_CONCAT, MASK_WRITEMEM + MASK_ACTION, 4 + MASK_ACTION + MASK_SCHEDULED_ACTION,
                 MASK_CONCAT + MASK_WRITEMEM + MASK_ACTION + MASK_SCHEDULED_ACTION}
\* what the wire does to the requests of one call
Wire == {"ok", "probe fails", "command fails"}
\* words a READREG_ACK carries at most
MaxWords == 3
\* the calls are made while the next request-id is at most this
MaxCallId == 6

RECURSIVE Advance(_, _)
\* __req_id after n calls of GVCPRequestId.get
Advance(r, n) == IF n = 0 THEN r ELSE Advance(NextRequestId(r), n - 1)

RECURSIVE Gate(_, _, _)
\* a gate that reads the capability register whether or not the flag is cached
Gate_uncached(fs, fl, ok) ==
  IF fs = <<>> THEN [err |-> "none", flags |-> fl, probes |-> 0]
  ELSE LET f == Head(fs)
           fl1 == IF ok THEN CapFlags(capability) ELSE fl
       IN IF ~ok THEN [err |-> "timeout", flags |-> fl, probes |-> 1]
          ELSE IF fl1[f] # "True" THEN [err |-> "NotImplementedError", flags |-> fl1, probes |-> 1]
          ELSE LET r == Gate(Tail(fs), fl1, ok) IN [r EXCEPT !.probes = 1]

\* "if self.<f>_support == None: self._check_capability()" and "if not
\* self.<f>_support: raise NotImplementedError" for each feature of fs in turn, the
\* probe's READREG succeeding (ok) or failing: the exception, the flags afterwards
\* and the number of probes sent
Gate(fs, fl, ok) ==
  IF fs = <<>> THEN [err |-> "none", flags |-> fl, probes |-> 0]
  ELSE LET f == Head(fs)
           needs == fl[f] = "None"
           fl1 == IF needs /\ ok THEN CapFlags(capability) ELSE fl
           n == IF needs THEN 1 ELSE 0
       IN IF needs /\ ~ok THEN [err |-> "timeout", flags |-> fl, probes |-> 1]
          ELSE IF fl1[f] # "True" THEN [err |-> "NotImplementedError", flags |-> fl1, probes |-> n]
          ELSE LET r == Gate(Tail(fs), fl1, ok) IN [r EXCEPT !.probes = @ + n]

Packet(cmd, n, addr, id) == [cmd |-> cmd, n |-> n, addr |-> addr, id |-> id]

\* the call c ends with res, having sent pk and called GVCPRequestId.get ids times
Done(c, res, pk, ids, fl, v) ==
  /\ call' = c
  /\ api_result' = res
  /\ sent' = pk
  /\ req_id' = Advance(req_id, ids)
  /\ support' = fl
  /\ ret' = v
  /\ UNCHANGED <<soc, timeout, soc_lock, pending, heartbeat_disable, heartbeat_thread, nOpen,
                 pc, op, req, rid, retry, rx, result, xmit, seen, log, hist, buffer, capability, stream, fx, gentl>>

\* a public method from call to return: connected check, capability gate for the
\* features fs, GVCPRequestId.get and the constructor (exception verr), _request
\* (failing, or returning a reply the typed ack rejects with rerr) and the value v
Run(c, fs, verr, cmd, n, addr, rerr, v) ==
  /\ IF ~connected THEN Done(c, "NotConnectedError", <<>>, 0, support, NoRet)
     ELSE \E w \in Wire :
       LET g == Gate(fs, support, w # "probe fails")
           okCmd == w # "command fails"
           probe == IF g.probes = 1
                      THEN <<Packet("READREG", 1, Addr(0, REG_GVCP_CAPABILITY), req_id)>> ELSE <<>>
           pk == Append(probe, Packet(cmd, n, addr, Advance(req_id, g.probes)))
       IN IF g.err # "none" THEN Done(c, g.err, probe, g.probes, g.flags, NoRet)
          ELSE IF verr # "none" THEN Done(c, verr, probe, g.probes + 1, g.flags, NoRet)
          ELSE IF ~c.ack THEN Done(c, "ok", pk, g.probes + 1, g.flags, NoRet)
          ELSE IF ~okCmd THEN Done(c, "timeout", pk, g.probes + 1, g.flags, NoRet)
          ELSE IF rerr # "none" THEN Done(c, rerr, pk, g.probes + 1, g.flags, NoRet)
          ELSE Done(c, "ok", pk, g.probes + 1, g.flags, v)

\* GVCP.readreg(addrs, return_type), the device answering with k words
GVCP_readreg ==
  \E a \in AddrArgs(ReadCounts), rtype \in {"bytes", "int"}, k \in 0..MaxWords :
    LET n == a.n
        last == a.last
        c == [NoCall EXCEPT !.op = "readreg", !.n = n, !.last = last, !.rtype = rtype, !.ack = TRUE]
        payload == DevicePayload(k)
    IN /\ req_id <= MaxCallId
       /\ Run(c, IF n > 1 THEN <<"concat">> ELSE <<>>, GVCPReadRegCmd(AddrList(n, last)),
           "READREG", n, last, GVCPReadRegAck(Len(payload)),
           IF k = 0 THEN NoRet ELSE readreg_return(payload, rtype))

\* GVCP.writereg(addrs, values, ack)
GVCP_writereg ==
  \E a \in AddrArgs(WriteCounts), d \in {0, 1}, ack \in BOOLEAN :
    LET n == a.n
        last == a.last
        c == [NoCall EXCEPT !.op = "writereg", !.n = n, !.nvals = n + d, !.last = last, !.ack = ack]
    IN /\ req_id <= MaxCallId
       /\ Run(c, IF n > 1 THEN <<"concat">> ELSE <<>>, GVCPWriteRegCmd(AddrList(n, last), n + d),
           "WRITEREG", n, last, "none", NoRet)

\* GVCP.readmem(addr, count): the ack's address is the one asked for, or another
GVCP_readmem ==
  \E a \in MemArgs(MemCounts, 4), rerr \in {"none", "AckValueError"} :
    LET addr == a.last
        count == a.count
        c == [NoCall EXCEPT !.op = "readmem", !.last = addr, !.count = count, !.ack = TRUE]
    IN /\ req_id <= MaxCallId
       /\ Run(c, <<>>, GVCPReadMemCmd(addr, count), "READMEM", count, addr, rerr, NoRet)

\* GVCP.writemem(addr, value, ack)
GVCP_writemem ==
  \E a \in MemArgs(ValueLens, 1), ack \in BOOLEAN :
    LET addr == a.last
        len == a.count
        c == [NoCall EXCEPT !.op = "writemem", !.last = addr, !.count = len, !.ack = ack]
    IN /\ req_id <= MaxCallId
       /\ Run(c, <<"writemem">>, GVCPWriteMemCmd(addr, len), "WRITEMEM", len, addr, "none", NoRet)

\* GVCP.action(device_key, group_key, group_mask, ack, act_time)
GVCP_action ==
  \E sched, ack \in BOOLEAN :
    LET c == [NoCall EXCEPT !.op = "action", !.sched = sched, !.ack = ack]
    IN /\ req_id <= MaxCallId
       /\ Run(c, IF sched THEN <<"action", "scheduled_action">> ELSE <<"action">>, "none",
           "ACTION", 0, Addr(0, 0), "none", NoRet)

\* GVCP.discovery()
GVCP_discovery ==
  /\ req_id <= MaxCallId
  /\ Run([NoCall EXCEPT !.op = "discovery", !.ack = TRUE], <<>>, "none", "DISCOVERY", 0, Addr(0, 0), "none", NoRet)

\* GVCP.get_device_description_url(): readmem(REG_FIRST_URL, REG_FIRST_URL_LEN, str)
GVCP_get_device_description_url ==
  \E rerr \in {"none", "AckValueError"} :
    /\ req_id <= MaxCallId
    /\ Run([NoCall EXCEPT !.op = "get_device_description_url", !.ack = TRUE], <<>>,
        GVCPReadMemCmd(Addr(0, REG_FIRST_URL), REG_FIRST_URL_LEN), "READMEM", REG_FIRST_URL_LEN,
        Addr(0, REG_FIRST_URL), rerr, NoRet)

\* packet_size of get_device_description_file
DDF_PACKET_SIZE == 512

\* a parsed DeviceDescriptionUrl: where the file is, its extension and, for a
\* file in the camera's memory, its address (the low half) and length
Urls ==
  [location : {"local"}, extension : {"xml", "zip", "other"}, address : {32768}, length : {3, 512, 516}]
    \cup [location : {"file"}, extension : {"xml", "zip", "other"}, address : {0}, length : {0}]
    \cup [location : {"http", "other"}, extension : {"xml"}, address : {0}, length : {0}]

RECURSIVE Chunks(_, _)
\* "while len_left >= packet_size": the (address, count) of each readmem of the loop
Chunks(addr, len_left) ==
  IF len_left >= DDF_PACKET_SIZE
    THEN <<[addr |-> addr, count |-> DDF_PACKET_SIZE]>> \o Chunks(addr + DDF_PACKET_SIZE, len_left - DDF_PACKET_SIZE)
    ELSE <<>>

\* "if len_left % 4: len_left = len_left + 4 - (len_left % 4)" on what the loop left
TailCount(len_total) ==
  LET len_left == len_total % DDF_PACKET_SIZE
  IN IF len_left % 4 # 0 THEN len_left + 4 - (len_left % 4) ELSE len_left

\* the readmem calls of the local branch in order: the loop's, then the tail's
Reads(url) ==
  Append(Chunks(url.address, url.length),
         [addr |-> url.address + DDF_PACKET_SIZE * (url.length \div DDF_PACKET_SIZE),
          count |-> TailCount(url.length)])

\* what follows the reads: extension handling and "if (path != None): z_file.extractall(path)"
Extract(url, path) ==
  IF url.location = "file" THEN
    IF url.extension \notin {"xml", "zip"} THEN "AckValueError"
    ELSE IF path THEN "UnboundLocalError" ELSE "ok"
  ELSE IF url.location = "local" THEN
    IF url.extension = "zip" THEN "ok" ELSE "AckValueError"
  ELSE IF url.location = "http" THEN "NotImplementedError"
  ELSE "AckValueError"

\* GVCP.get_device_description_file(path): the URL is read and parsed, the file is
\* read from the camera's memory in chunks, the fail-th request getting no answer
GVCP_get_device_description_file ==
  \E url \in Urls, path \in BOOLEAN, fail \in 0..2 :
    LET c == [NoCall EXCEPT !.op = "get_device_description_file", !.ack = TRUE,
                            !.last = Addr(0, url.address), !.count = url.length,
                            !.location = url.location, !.extension = url.extension, !.path = path]
        first == Packet("READMEM", REG_FIRST_URL_LEN, Addr(0, REG_FIRST_URL), req_id)
        rs == Reads(url)
        \* the reads whose command is built and sent before one is refused
        bad == {i \in 1..Len(rs) : GVCPReadMemCmd(Addr(0, rs[i].addr), rs[i].count) # "none"}
        nsent == IF bad = {} THEN Len(rs) ELSE (CHOOSE i \in bad : \A j \in bad : i <= j) - 1
        pks == [i \in 1..nsent |-> Packet("READMEM", rs[i].count, Addr(0, rs[i].addr), Advance(req_id, i))]
    IN /\ req_id <= MaxCallId
       /\ IF ~connected THEN Done(c, "NotConnectedError", <<>>, 0, support, NoRet)
          ELSE IF fail = 1 THEN Done(c, "timeout", <<first>>, 1, support, NoRet)
          ELSE IF url.location # "local" THEN
            Done(c, Extract(url, path), <<first>>, 1, support,
                 IF Extract(url, path) = "ok" THEN [kind |-> "xml", words |-> <<>>] ELSE NoRet)
          ELSE IF fail = 2 /\ nsent >= 1 THEN
            Done(c, "timeout", <<first, pks[1]>>, 2, support, NoRet)
          ELSE IF bad # {} THEN Done(c, "ValueError", <<first>> \o pks, nsent + 2, support, NoRet)
          ELSE Done(c, Extract(url, path), <<first>> \o pks, nsent + 1, support,
                    IF Extract(url, path) = "ok"
                      THEN [kind |-> "xml", words |-> <<url.length>>] ELSE NoRet)

\* GVCP.disconnect() on a connection that is not connected
GVCP_disconnect == ~connected /\ disconnect("caller")

NextApi ==
  \/ GVCP_readreg
  \/ GVCP_writereg
  \/ GVCP_readmem
  \/ GVCP_writemem
  \/ GVCP_action
  \/ GVCP_discovery
  \/ GVCP_get_device_description_url
  \/ GVCP_get_device_description_file
  \/ GVCP_disconnect

\* the connection as a successful connect leaves it: the socket open, three
\* request-ids used, CCP read back as 2, the heartbeat thread waiting for its first period
AfterConnect ==
  /\ soc = "open"
  /\ timeout = SocTimeoutMs
  /\ nOpen = 1
  /\ soc_lock = "free"
  /\ req_id = 4
  /\ pending = FALSE
  /\ heartbeat_disable = FALSE
  /\ heartbeat_thread = TRUE
  /\ pc = [t \in Threads |-> IF t = "heartbeat" THEN "hb_wait" ELSE "idle"]
  /\ op = [t \in Threads |-> IF t = "heartbeat" THEN "heartbeat" ELSE "connect"]
  /\ req = [t \in Threads |-> NoReq]
  /\ rid = [t \in Threads |-> 0]
  /\ retry = [t \in Threads |-> 0]
  /\ rx = [t \in Threads |->
            IF t = "heartbeat" THEN NoAck
            ELSE [NoAck EXCEPT !.id = 3, !.code = "READREG_ACK", !.val = VAL_CONTROL_ACCESS]]
  /\ result = [t \in Threads |-> IF t = "heartbeat" THEN "none" ELSE "ok"]
  /\ xmit = [t \in Threads |-> 0]
  /\ seen = [t \in Threads |-> <<>>]
  /\ log = <<Event("open"), WriteCcp(VAL_CONTROL_ACCESS), WriteHeartbeat, ReadReg(REG_CCP)>>
  /\ ccp_last = VAL_CONTROL_ACCESS
  /\ ccp_own = VAL_CONTROL_ACCESS

\* one caller on a connection that is connected, or not, to a device with some
\* capability register
InitApi ==
  /\ InitObjects
  /\ capability \in Capabilities
  /\ \/ InitEngine /\ soc = "None" /\ timeout = 0
     \/ AfterConnect

SpecApi == InitApi /\ [][NextApi]_vars

\* ------------------------------------------------------------- the frame stream
\* FXBase's acquisition methods and frame handler, and the GVSP receiver that calls
\* the handler.  The receiver is gvsp.c, an extension module: it is modelled from
\* its description (one block in flight, received data packets marked, delivery on
\* a complete trailer, older block-ids discarded, losses counted).

\* data packets of one frame: PayloadSize over the payload of one packet
DataPackets == 2
\* packets the receive task handles in one run of the model
MaxPackets == 8

\* a recording that keeps intercepted frames too
recorded_always(intercept, rec) == rec

\* handle_frame: "if not intercept: if self.record: self.buffer.append(frame)"
recorded(intercept, rec) == ~intercept /\ rec

\* handle_frame(frame, bit_depth) for the frame of block b, the user's callback, if
\* there is one, returning intercept (handle_count of dark_ref_acquire counts the
\* frame and returns False)
handle_frame(b, intercept) ==
  /\ frame_cb # "set" => ~intercept
  /\ dark' = IF frame_cb = "handle_count" THEN [dark EXCEPT !.n = @ + 1] ELSE dark
  /\ frames' = Append(frames, [block |-> b, rec |-> record,
                               cb |-> IF frame_cb = "None" THEN "absent"
                                      ELSE IF intercept THEN "true" ELSE "false"])
  /\ buffer' = IF recorded(intercept, record) THEN Append(buffer, b) ELSE buffer
  /\ pushed' = (~intercept /\ preview = "visible")

\* a frame whose trailer is taken for complete whatever was received
complete_any(m) == TRUE

\* every data packet of the frame was received
complete(m) == m = 1..DataPackets

\* a trailer that leaves the frame in progress
after_trailer_kept == TRUE

\* "Reset state" after a trailer: no frame is in progress
after_trailer == FALSE

\* what a step of the stream leaves alone
StreamFrame ==
  UNCHANGED <<soc, timeout, soc_lock, req_id, pending, heartbeat_disable, heartbeat_thread, nOpen,
              pc, op, req, rid, retry, rx, result, xmit, seen, log, hist,
              support, capability, call, api_result, sent, ret, gentl>>

\* the receive task takes one more packet
gvsp_packet ==
  /\ receiving
  /\ gvsp_open
  /\ npk < MaxPackets
  /\ npk' = npk + 1
  /\ UNCHANGED <<record, frame_cb, preview, receiving, scp_port, gvsp_open, gvsp_parts, fx_call, fx_result, fx_log, fx_ret>>
  /\ StreamFrame

\* leader of block b: a newer block-id starts a frame, discarding (and counting as
\* lost) an unfinished one; an older or the same block-id is discarded
gvsp_leader(b) ==
  /\ gvsp_packet
  /\ IF b > block
       THEN /\ block' = b
            /\ assembling' = TRUE
            /\ marks' = {}
            /\ loss' = IF assembling THEN loss + 1 ELSE loss
       ELSE UNCHANGED <<block, assembling, marks, loss>>
  /\ UNCHANGED <<frames, buffer, pushed, trailers, dark>>

\* data packet s of block b: marked when b is the frame in progress
gvsp_data(b, s) ==
  /\ gvsp_packet
  /\ marks' = IF assembling /\ b = block THEN marks \cup {s} ELSE marks
  /\ UNCHANGED <<block, assembling, loss, frames, buffer, pushed, trailers, dark>>

\* trailer of block b: the frame in progress is delivered when complete, counted as
\* lost otherwise, and the state is reset; another block's trailer is discarded
gvsp_trailer(b) ==
  /\ gvsp_packet
  /\ trailers' = [trailers EXCEPT ![b] = @ + 1]
  /\ IF assembling /\ b = block
       THEN /\ assembling' = after_trailer
            /\ IF complete(marks)
                 THEN (\E intercept \in BOOLEAN : handle_frame(b, intercept)) /\ loss' = loss
                 ELSE loss' = loss + 1 /\ UNCHANGED <<frames, buffer, pushed, dark>>
            /\ UNCHANGED <<block, marks>>
       ELSE UNCHANGED <<block, assembling, marks, loss, frames, buffer, pushed, dark>>

\* the receive task receives the leader, every data packet and the trailer of a
\* newer block b in a row and delivers the frame
gvsp_frame(b) ==
  /\ receiving
  /\ gvsp_open
  /\ ~assembling
  /\ b > block
  /\ npk + DataPackets + 2 <= MaxPackets
  /\ npk' = npk + DataPackets + 2
  /\ block' = b
  /\ marks' = 1..DataPackets
  /\ trailers' = [trailers EXCEPT ![b] = @ + 1]
  /\ \E intercept \in BOOLEAN : handle_frame(b, intercept)
  /\ UNCHANGED <<assembling, loss, record, frame_cb, preview, receiving,
                 scp_port, gvsp_open, gvsp_parts, fx_call, fx_result, fx_log, fx_ret>>
  /\ StreamFrame

\* ------------------------------------------------------ FXBase: stream lifecycle
\* The methods of FXBase are modelled from call to return. Their register reads and
\* writes go through the request/reply engine above; here a write is answered and
\* takes effect on the device, and the read of GevSCPHostPort is answered or not.

\* the port gvsp.create_socket bound, which open_stream writes to GevSCPHostPort
GvspPort == 49152
\* frame_count of dark_ref_acquire
FrameCount == 1

\* one thing a method did: a register read or write, or a call of the gvsp module
Eff(kind, reg, val) == [eff |-> kind, reg |-> reg, val |-> val]
\* what the wire does to the read of GevSCPHostPort
FxWire == {"ok", "read fails"}

\* a check that takes the stream channel of a connected camera for open
check_stream_channel_connected(w) ==
  IF ~connected THEN "NotConnectedError"
  ELSE IF w = "read fails" THEN "timeout"
  ELSE "none"

\* FXBase._check_stream_channel: _check_connection, then is_stream_open, which
\* reads GevSCPHostPort: the exception raised, "none" when the check passes
check_stream_channel(w) ==
  IF ~connected THEN "NotConnectedError"
  ELSE IF w = "read fails" THEN "timeout"
  ELSE IF scp_port = 0 THEN "StreamClosedError"
  ELSE "none"

\* the read is_stream_open makes
ReadPort == Eff("read", "GevSCPHostPort", scp_port)
\* what a method whose check raised has done
CheckLog(w) == IF connected /\ w = "ok" THEN <<ReadPort>> ELSE <<>>

\* the method m ends with res, having done lg, and returns r
FxReturn(m, res, lg, r) ==
  /\ fx_call' = m
  /\ fx_result' = res
  /\ fx_log' = lg
  /\ fx_ret' = r

\* the method m ends with res, having done lg, and returns None if it returns
FxDone(m, res, lg) == FxReturn(m, res, lg, NoFxRet)

\* what the receiver of a stream channel holds besides its socket
GvspParts == {"frame_cb", "buffer"}

\* what open_stream does, in order
OpenStreamLog ==
  <<Eff("read", "PayloadSize", 0), Eff("read", "DeviceStreamChannelPacketSize", 0),
    Eff("gvsp", "create_socket", 0), Eff("gvsp", "set_frame_cb", 0), Eff("gvsp", "create_buffer", 0),
    Eff("write", "GevSCDAReg", 1), Eff("write", "GevSCPHostPort", GvspPort)>>

\* what close_stream does after its check, in order
CloseStreamLog ==
  <<Eff("write", "GevSCDAReg", 0), Eff("write", "GevSCPHostPort", 0),
    Eff("gvsp", "free_buffer", 0), Eff("gvsp", "close_socket", 0)>>

\* the step of open_stream / close_stream that raises, "none" when none does:
\* gvsp.create_buffer (MemoryError) or the write of a register (no acknowledgement)
StreamFaults == {"none", "create_buffer", "GevSCDAReg", "GevSCPHostPort"}

\* position in the log lg of the step named f, Len(lg) + 1 when f is "none"
FaultAt(lg, f) ==
  IF f = "none" THEN Len(lg) + 1
  ELSE CHOOSE i \in DOMAIN lg : lg[i].reg = f

\* the exception the failing step f raises
FaultOf(f) == IF f = "none" THEN "ok" ELSE IF f = "create_buffer" THEN "MemoryError" ELSE "timeout"

\* mutant: open_stream programs the destination before it creates the receiver
open_stream_steps_registers_first ==
  <<OpenStreamLog[1], OpenStreamLog[2], OpenStreamLog[6], OpenStreamLog[7],
    OpenStreamLog[3], OpenStreamLog[4], OpenStreamLog[5]>>

\* open_stream, lines 339-347: the reads, the three gvsp calls, the two writes
open_stream_steps == OpenStreamLog

\* the steps of lg before the one that raises; a write whose acknowledgement is
\* lost has reached the device (applied) or not
StepsDone(lg, f, applied) ==
  SubSeq(lg, 1, IF f # "none" /\ applied /\ lg[FaultAt(lg, f)].eff = "write"
                  THEN FaultAt(lg, f) ELSE FaultAt(lg, f) - 1)

\* the receiver and the destination port after the steps lg, from socket s, parts p
\* and port q
RECURSIVE StreamAfter(_, _, _, _)
StreamAfter(lg, s, p, q) ==
  IF lg = <<>> THEN [open |-> s, parts |-> p, port |-> q]
  ELSE LET h == Head(lg) IN
       StreamAfter(Tail(lg),
                   IF h.reg = "create_socket" THEN TRUE
                   ELSE IF h.reg = "close_socket" THEN FALSE ELSE s,
                   IF h.reg = "create_socket" THEN {}
                   ELSE IF h.reg = "set_frame_cb" THEN p \cup {"frame_cb"}
                   ELSE IF h.reg = "create_buffer" THEN p \cup {"buffer"}
                   ELSE IF h.reg = "free_buffer" THEN p \ {"buffer"}
                   ELSE IF h.reg = "close_socket" THEN {}
                   ELSE p,
                   IF h.eff = "write" /\ h.reg = "GevSCPHostPort" THEN h.val ELSE q)

\* FXBase.open_stream(), called while the stream channel is closed or no receiver
\* exists
open_stream ==
  /\ ~dark.on
  /\ ~receiving
  /\ ~gvsp_open \/ scp_port = 0
  /\ \E w \in FxWire, f \in StreamFaults, applied \in BOOLEAN :
       IF ~connected THEN
         FxDone("open_stream", "NotConnectedError", <<>>) /\ UNCHANGED <<scp_port, gvsp_open, gvsp_parts>>
       ELSE IF w = "read fails" THEN
         FxDone("open_stream", "timeout", <<>>) /\ UNCHANGED <<scp_port, gvsp_open, gvsp_parts>>
       ELSE
         \E a \in {StreamAfter(StepsDone(open_stream_steps, f, applied), gvsp_open, gvsp_parts, scp_port)} :
           /\ gvsp_open' = a.open
           /\ gvsp_parts' = a.parts
           /\ scp_port' = a.port
           /\ FxDone("open_stream", FaultOf(f), StepsDone(open_stream_steps, f, applied))
  /\ UNCHANGED <<dark, buffer, stream>>
  /\ StreamFrame

\* mutant: close_stream frees the receiver before it zeroes the destination
close_stream_steps_free_first ==
  <<CloseStreamLog[3], CloseStreamLog[4], CloseStreamLog[1], CloseStreamLog[2]>>

\* close_stream, lines 363-366: the two writes, free_buffer, close_socket
close_stream_steps == CloseStreamLog

\* FXBase.close_stream()
close_stream ==
  /\ ~dark.on
  /\ \E w \in FxWire, f \in StreamFaults \ {"create_buffer"}, applied \in BOOLEAN :
       LET e == check_stream_channel(w) IN
       IF e # "none" THEN
         FxDone("close_stream", e, CheckLog(w)) /\ UNCHANGED <<scp_port, gvsp_open, gvsp_parts>>
       ELSE
         \E a \in {StreamAfter(StepsDone(close_stream_steps, f, applied), gvsp_open, gvsp_parts, scp_port)} :
           /\ gvsp_open' = a.open
           /\ gvsp_parts' = a.parts
           /\ scp_port' = a.port
           /\ FxDone("close_stream", FaultOf(f), <<ReadPort>> \o StepsDone(close_stream_steps, f, applied))
  /\ UNCHANGED <<dark, buffer, stream>>
  /\ StreamFrame

\* start_acquire, lines 385-386: gvsp.start_receive, then the write of AcquisitionStart
start_acquire_steps ==
  <<Eff("gvsp", "start_receive", 0), Eff("write", "AcquisitionStart", 1)>>

\* mutant: stop_acquire takes the recording before it stops the receive task
stop_acquire_steps_take_first(rec) ==
  <<Eff("write", "AcquisitionStop", 1)>>
  \o (IF rec THEN <<Eff("take", "buffer", 0)>> ELSE <<>>)
  \o <<Eff("gvsp", "stop_receive", 0)>>

\* stop_acquire, lines 400-408: the write of AcquisitionStop, gvsp.stop_receive,
\* and with self.record set the recording taken out of self.buffer
stop_acquire_steps(rec) ==
  <<Eff("write", "AcquisitionStop", 1), Eff("gvsp", "stop_receive", 0)>>
  \o (IF rec THEN <<Eff("take", "buffer", 0)>> ELSE <<>>)

\* the receive task, the recording queue and the value to return after the steps
\* lg, from receive task r, queue b and return value v
RECURSIVE AcquireAfter(_, _, _, _)
AcquireAfter(lg, r, b, v) ==
  IF lg = <<>> THEN [receiving |-> r, buffer |-> b, ret |-> v]
  ELSE LET h == Head(lg) IN
       AcquireAfter(Tail(lg),
                    IF h.reg = "start_receive" THEN TRUE
                    ELSE IF h.reg = "stop_receive" THEN FALSE ELSE r,
                    IF h.eff = "take" THEN <<>> ELSE b,
                    IF h.eff = "take" THEN [rec |-> TRUE, frames |-> b] ELSE v)

\* FXBase.start_acquire(record), called while the receive task is not running
start_acquire ==
  /\ ~dark.on
  /\ ~receiving
  /\ \E rec \in BOOLEAN, w \in FxWire, f \in {"none", "AcquisitionStart"}, applied \in BOOLEAN :
       LET e == check_stream_channel(w) IN
       IF e # "none" THEN
         FxDone("start_acquire", e, CheckLog(w)) /\ UNCHANGED <<record, receiving>>
       ELSE
         /\ record' = rec
         /\ receiving' = AcquireAfter(StepsDone(start_acquire_steps, f, applied),
                                      receiving, buffer, NoFxRet).receiving
         /\ FxDone("start_acquire", FaultOf(f), <<ReadPort>> \o StepsDone(start_acquire_steps, f, applied))
  /\ UNCHANGED <<frame_cb, preview, pushed, block, assembling, marks, loss, frames, trailers, npk,
                 buffer, scp_port, gvsp_open, gvsp_parts, dark>>
  /\ StreamFrame

\* FXBase.stop_acquire(), called while the receive task is running: the recording
\* is taken out of the queue
stop_acquire ==
  /\ ~dark.on
  /\ receiving
  /\ \E w \in FxWire, f \in {"none", "AcquisitionStop"}, applied \in BOOLEAN :
       LET e == check_stream_channel(w) IN
       IF e # "none" THEN
         FxDone("stop_acquire", e, CheckLog(w)) /\ UNCHANGED <<receiving, buffer>>
       ELSE
         \E a \in {AcquireAfter(StepsDone(stop_acquire_steps(record), f, applied),
                                receiving, buffer, NoFxRet)} :
           /\ receiving' = a.receiving
           /\ buffer' = a.buffer
           /\ FxReturn("stop_acquire", FaultOf(f),
                       <<ReadPort>> \o StepsDone(stop_acquire_steps(record), f, applied), a.ret)
  /\ UNCHANGED <<record, frame_cb, preview, pushed, block, assembling, marks, loss, frames, trailers,
                 npk, scp_port, gvsp_open, gvsp_parts, dark>>
  /\ StreamFrame

\* FXBase.dark_ref_acquire(frame_count) up to "ready.wait()", called while the
\* receive task is not running: handle_count replaces the frame callback, the shutter
\* is closed and start_acquire(True) is called
dark_ref_acquire ==
  /\ ~dark.on
  /\ ~receiving
  /\ \E w \in FxWire :
       LET e == check_stream_channel(w) IN
       IF e # "none" THEN
         FxDone("dark_ref_acquire", e, CheckLog(w)) /\ UNCHANGED <<frame_cb, record, receiving, dark>>
       ELSE
         /\ frame_cb' = "handle_count"
         /\ dark' = [on |-> TRUE, old_cb |-> frame_cb, n |-> 0]
         /\ record' = TRUE
         /\ receiving' = TRUE
         /\ FxDone("dark_ref_acquire", "waiting",
                   <<ReadPort, Eff("write", "MotorShutter_PulseFwd", 200), ReadPort,
                     Eff("gvsp", "start_receive", 0), Eff("write", "AcquisitionStart", 1)>>)
  /\ UNCHANGED <<preview, pushed, block, assembling, marks, loss, frames, trailers, npk,
                 buffer, scp_port, gvsp_open, gvsp_parts>>
  /\ StreamFrame

\* FXBase.dark_ref_acquire from "ready.wait()" on, once handle_count has counted
\* frame_count frames: stop_acquire() takes the recording, the frame callback is
\* put back and the shutter is opened; an exception of stop_acquire leaves
\* handle_count in place
dark_ref_ready ==
  /\ dark.on
  /\ dark.n >= FrameCount
  /\ \E w \in FxWire :
       LET e == check_stream_channel(w) IN
       IF e # "none" THEN
         FxDone("dark_ref_acquire", e, CheckLog(w)) /\ UNCHANGED <<frame_cb, receiving, buffer>>
       ELSE
         /\ receiving' = FALSE
         /\ buffer' = IF record THEN <<>> ELSE buffer
         /\ frame_cb' = dark.old_cb
         /\ FxDone("dark_ref_acquire", "ok",
                   <<ReadPort, Eff("write", "AcquisitionStop", 1), Eff("gvsp", "stop_receive", 0),
                     Eff("write", "MotorShutter_PulseRev", 200)>>)
  /\ dark' = NoDark
  /\ UNCHANGED <<record, preview, pushed, block, assembling, marks, loss, frames, trailers, npk,
                 scp_port, gvsp_open, gvsp_parts>>
  /\ StreamFrame

\* the user assigns FXBase.frame_cb a function, or None
set_frame_cb ==
  /\ ~dark.on
  /\ \E f \in {"None", "set"} : f # frame_cb /\ frame_cb' = f
  /\ UNCHANGED <<record, preview, pushed, receiving, block, assembling, marks, loss, frames, trailers,
                 npk, buffer, fx>>
  /\ StreamFrame

\* FXBase.show_preview / hide_preview with a preview window
show_hide_preview ==
  /\ ~dark.on
  /\ preview # "None"
  /\ preview' = IF preview = "visible" THEN "hidden" ELSE "visible"
  /\ UNCHANGED <<record, frame_cb, pushed, receiving, block, assembling, marks, loss, frames, trailers,
                 npk, buffer, fx>>
  /\ StreamFrame

\* the heartbeat thread of an idle connection reads CCP, finds control lost (0) and
\* closes the connection (hb_wait, hb_loop and the READREG up to hb_close, in one step)
connection_lost ==
  /\ connected
  /\ pc = [t \in Threads |-> IF t = "heartbeat" THEN "hb_wait" ELSE "idle"]
  /\ soc_lock = "free"
  /\ soc' = "None"
  /\ timeout' = 0
  /\ nOpen' = 0
  /\ req_id' = NextRequestId(req_id)
  /\ pc' = [pc EXCEPT !["heartbeat"] = "lost"]
  /\ result' = [result EXCEPT !["heartbeat"] = "NotConnectedError"]
  /\ rx' = [rx EXCEPT !["heartbeat"] = [NoAck EXCEPT !.id = req_id, !.code = "READREG_ACK"]]
  /\ ccp_last' = 0
  /\ ccp_own' = 0
  /\ UNCHANGED <<soc_lock, pending, heartbeat_disable, heartbeat_thread, op, req, rid, retry,
                 xmit, seen, log, elsewhere>>

NextGvsp ==
  \/ \E b \in Blocks : gvsp_leader(b)
  \/ \E b \in Blocks, s \in 1..DataPackets : gvsp_data(b, s)
  \/ \E b \in Blocks : gvsp_trailer(b)
  \/ start_acquire
  \/ stop_acquire
  \/ set_frame_cb
  \/ show_hide_preview

\* a connected camera with its stream open, with or without a preview window
InitGvsp ==
  /\ AfterConnect
  /\ capability = 0
  /\ buffer = <<>> /\ support = [f \in Features |-> "None"]
  /\ call = NoCall /\ api_result = "none" /\ sent = <<>> /\ ret = NoRet
  /\ record = FALSE /\ frame_cb = "None" /\ pushed = FALSE /\ receiving = FALSE
  /\ preview \in {"None", "hidden"}
  /\ block = 0 /\ assembling = FALSE /\ marks = {} /\ loss = 0
  /\ frames = <<>> /\ trailers = [b \in Blocks |-> 0] /\ npk = 0
  /\ scp_port = GvspPort /\ gvsp_open = TRUE /\ gvsp_parts = GvspParts /\ dark = NoDark
  /\ fx_call = "open_stream" /\ fx_result = "ok" /\ fx_log = OpenStreamLog /\ fx_ret = NoFxRet
  /\ InitGentl

NextFx ==
  \/ open_stream
  \/ close_stream
  \/ start_acquire
  \/ stop_acquire
  \/ dark_ref_acquire
  \/ dark_ref_ready
  \/ set_frame_cb
  \/ connection_lost
  \/ \E b \in Blocks : gvsp_frame(b)

\* a camera as FXBase.__init__ leaves it: connected, no stream channel open
InitFx ==
  /\ AfterConnect
  /\ InitObjects
  /\ capability = 0

SpecFx == InitFx /\ [][NextFx]_vars

SpecGvsp == InitGvsp /\ [][NextGvsp]_vars

\* ------------------------------------------------- GenTL: interfaces and discovery
\* GCInterface and GCSystem, their methods modelled from call to return. An IP
\* address or netmask is the tuple of its four bytes, a MAC address that of its six.

GVCP_KEY == 66
GVCP_PORT == 3956
DISCOVERY_CMD == 2
FORCEIP_CMD == 4
DiscoveryAckLength == 248

\* datagrams one call of update_device_list receives at most, over all its sockets
MaxAcks == 2
\* update_device_list and gvcp_forceip are called while the interface's next
\* request-id is at most this
MaxIntfId == 2

\* GCInterfaceInfo.addrs of each interface: address and netmask
HostAddrs ==
  [i \in IntfIds |->
     IF i = "eth0" THEN <<[address |-> <<10, 0, 1, 5>>, netmask |-> <<255, 255, 255, 0>>],
                          [address |-> <<10, 0, 2, 5>>, netmask |-> <<255, 255, 0, 0>>]>>
     ELSE IF i = "eth1" THEN <<[address |-> <<169, 254, 0, 1>>, netmask |-> <<255, 255, 0, 0>>]>>
     ELSE <<[address |-> <<127, 0, 0, 1>>, netmask |-> <<255, 0, 0, 0>>]>>]

\* the destination of every DISCOVERY and FORCEIP
Broadcast == [ip |-> <<255, 255, 255, 255>>, port |-> GVCP_PORT]

\* the cameras of the model: what DISCOVERY_ACKs tell of them (the second one
\* answers as either of two models)
Cameras ==
  {[mac |-> <<18, 52, 86, 120, 154, 188>>, vendor |-> "Specim", model |-> "FX10e"],
   [mac |-> <<18, 52, 86, 120, 154, 189>>, vendor |-> "Specim", model |-> "FX10e"],
   [mac |-> <<18, 52, 86, 120, 154, 189>>, vendor |-> "Specim", model |-> "FX17e"]}

RECURSIVE BitAnd(_, _)
\* x & y of two bytes
BitAnd(x, y) ==
  IF x = 0 \/ y = 0 THEN 0
  ELSE (IF x % 2 = 1 /\ y % 2 = 1 THEN 1 ELSE 0) + 2 * BitAnd(x \div 2, y \div 2)

\* ip_to_uint32(a) & ip_to_uint32(m), byte by byte
Network(a, m) == [k \in 1..4 |-> BitAnd(a[k], m[k])]

\* utils.is_normal_ip: neither loopback nor a broadcast address
is_normal_ip(addr) ==
  LET mask == [k \in 1..4 |-> 255 - addr.netmask[k]]
  IN /\ addr.address[1] # 127
     /\ addr.address # <<255, 255, 255, 255>>
     /\ Network(addr.address, mask) # mask

\* a header whose flag byte leaves out the acknowledge bit
GVCPCmd_noack(id, cmd, cmd_flag, payload, ack) ==
  <<GVCP_KEY, cmd_flag * 16, (cmd \div 256) % 256, cmd % 256,
    (Len(payload) \div 256) % 256, Len(payload) % 256,
    (id \div 256) % 256, id % 256>> \o payload

\* GVCPCmd.__init__: the bytes of a command (the payloads here are multiples of 4)
GVCPCmd(id, cmd, cmd_flag, payload, ack) ==
  <<GVCP_KEY, cmd_flag * 16 + (IF ack THEN 1 ELSE 0), (cmd \div 256) % 256, cmd % 256,
    (Len(payload) \div 256) % 256, Len(payload) % 256,
    (id \div 256) % 256, id % 256>> \o payload

\* GVCPDiscoveryCmd(req_id, ack_bcast).data
GVCPDiscoveryCmd(id, ack_bcast) ==
  GVCPCmd(id, DISCOVERY_CMD, IF ack_bcast THEN 1 ELSE 0, <<>>, TRUE)

Zeros(n) == [k \in 1..n |-> 0]

\* GVCPForceIPCmd(req_id, mac, ip, mask, def_gateway, ack_bcast, ack).data
GVCPForceIPCmd(id, mac, ip, mask, def_gateway, ack_bcast, ack) ==
  GVCPCmd(id, FORCEIP_CMD, IF ack_bcast THEN 1 ELSE 0,
          Zeros(2) \o mac \o Zeros(12) \o ip \o Zeros(12) \o mask \o Zeros(12) \o def_gateway, ack)

\* a datagram sent through socket k of interface i
Datagram(i, k, data) == [intf |-> i, soc |-> k, dest |-> Broadcast, data |-> data]

\* datagrams a socket can receive after the DISCOVERY with request-id r: the
\* acks of the cameras, and acks that are stale, of another command, of another
\* length, flagged as errors, or carry a name that is not UTF-8
DiscAcks(r) ==
  {[id |-> r, code |-> "DISCOVERY_ACK", sev |-> FALSE, lenok |-> TRUE, length |-> DiscoveryAckLength,
    mac |-> c.mac, vendor |-> c.vendor, model |-> c.model, text |-> TRUE] : c \in Cameras}
  \cup {[id |-> IF x = "stale" THEN StaleId(r) ELSE r,
         code |-> IF x = "code" THEN "READREG_ACK" ELSE "DISCOVERY_ACK",
         sev |-> x = "sev", lenok |-> TRUE,
         length |-> IF x = "length" THEN 0 ELSE DiscoveryAckLength,
         mac |-> <<18, 52, 86, 120, 154, 188>>, vendor |-> "Specim", model |-> "FX10e",
         text |-> x # "text"] : x \in {"stale", "code", "sev", "length", "text"}}

\* GVCPDiscoveryAck.__init__: the exception parsing raises, "none" when it returns;
\* bytes_to_str raises UnicodeDecodeError for a name that is not UTF-8
GVCPDiscoveryAck(a) ==
  IF GVCPAck_from_bytes(a) # "none" THEN GVCPAck_from_bytes(a)
  ELSE IF a.code # "DISCOVERY_ACK" THEN "AckValueError"
  ELSE IF a.length # DiscoveryAckLength THEN "AckLengthError"
  ELSE IF ~a.text THEN "UnicodeDecodeError"
  ELSE "none"

\* exceptions.py: AckError and its subclasses
AckErrors == {"AckError", "AckLengthError", "AckValueError", "AckIdError"}

\* a collection that keeps every ack that parses, whatever its ack-id
keeps_any_id(a, r) == GVCPDiscoveryAck(a) = "none"

\* gvcp_discovery: "if response.ack_id == request.req_id: devices.append(response)"
keeps(a, r) == GVCPDiscoveryAck(a) = "none" /\ a.id = r

RECURSIVE gvcp_discovery(_, _)
\* GCInterface.gvcp_discovery after the DISCOVERY with request-id r was sent, got
\* being what soc.recv returns until it times out: the devices returned, or the
\* exception that is no AckError and ends the loop
gvcp_discovery(r, got) ==
  IF got = <<>> THEN [devices |-> <<>>, err |-> "none"]
  ELSE LET a == Head(got)
           e == GVCPDiscoveryAck(a)
       IN IF e \notin AckErrors \cup {"none"} THEN [devices |-> <<>>, err |-> e]
          ELSE LET rest == gvcp_discovery(r, Tail(got))
               IN IF keeps(a, r) THEN [rest EXCEPT !.devices = <<a>> \o @] ELSE rest

\* GCDeviceInfo(addr.address, addr.netmask, discovery)
GCDeviceInfo(addr, d) ==
  [mac |-> d.mac, host_address |-> addr.address, host_netmask |-> addr.netmask,
   vendor |-> d.vendor, model |-> d.model]

RECURSIVE dict_update(_, _, _)
\* self._existing_devs.update({discovery.mac_address: GCDeviceInfo(...)}) for each
\* device of ds in turn
dict_update(cat, addr, ds) ==
  IF ds = <<>> THEN cat
  ELSE dict_update({x \in cat : x.mac # Head(ds).mac} \cup {GCDeviceInfo(addr, Head(ds))}, addr, Tail(ds))

RECURSIVE device_list(_, _, _, _, _, _, _)
\* the loop of update_device_list of interface i from socket k on: the catalog, the
\* allocator, the datagrams sent and the exception ("none": the loop ended)
device_list(i, k, rxs, r, cat, out, ack_bcast) ==
  IF k > Len(HostAddrs[i]) THEN [cat |-> cat, req_id |-> r, sent |-> out, err |-> "none"]
  ELSE LET d == gvcp_discovery(r, rxs[k])
           out1 == Append(out, Datagram(i, k, GVCPDiscoveryCmd(r, ack_bcast)))
       IN IF d.err # "none" THEN [cat |-> cat, req_id |-> NextRequestId(r), sent |-> out1, err |-> d.err]
          ELSE device_list(i, k + 1, rxs, NextRequestId(r),
                           dict_update(cat, HostAddrs[i][k], d.devices), out1, ack_bcast)

\* sequences over S of length n at most
SeqsUpTo(S, n) == UNION {[1..m -> S] : m \in 0..n}

\* the datagrams of DiscAcks(r) that are DISCOVERY_ACKs of the right length
\* without error status echoing r
CameraAcks(r) ==
  {a \in DiscAcks(r) : a.id = r /\ a.code = "DISCOVERY_ACK" /\ ~a.sev /\ a.length = DiscoveryAckLength}

RECURSIVE Receptions(_, _, _, _, _)
\* what the sockets k.. of interface i can receive when the DISCOVERY of socket k
\* has request-id r: at most n datagrams in all, any of DiscAcks or those of
\* CameraAcks only
Receptions(i, k, r, n, any) ==
  IF k > Len(HostAddrs[i]) THEN {<<>>}
  ELSE UNION {{<<s>> \o rest : rest \in Receptions(i, k + 1, NextRequestId(r), n - Len(s), any)} :
                s \in SeqsUpTo(IF any THEN DiscAcks(r) ELSE CameraAcks(r), n)}

\* the method c ends with res, having sent out, received rxs and returned v
GtDone(c, res, out, rxs, v) ==
  /\ gt_call' = c
  /\ gt_result' = res
  /\ gt_sent' = out
  /\ gt_rx' = rxs
  /\ gt_ret' = v

\* what a step of the GenTL layer leaves alone
GentlFrame ==
  UNCHANGED <<soc, timeout, soc_lock, req_id, pending, heartbeat_disable, heartbeat_thread, nOpen,
              pc, op, req, rid, retry, rx, result, xmit, seen, log, ccp_last, ccp_own,
              buffer, support, capability, call, api_result, sent, ret, stream, fx>>

\* GCSystem._check_open / GCInterface._check_open on an object whose _is_open is
\* open: the exception raised, "none" when the check passes
check_open(open) == IF ~open THEN "RuntimeError" ELSE "none"

\* the fields of the interface objects once those of the ids in ids are closed:
\* every method of a closed GCInterface raises RuntimeError and GCSystem drops it
\* from its open interfaces, so its fields are written as those of a new object
InterfacesClosed(ids) ==
  /\ intf_open' = [i \in IntfIds |-> intf_open[i] /\ i \notin ids]
  /\ intf_req_id' = [i \in IntfIds |-> IF i \in ids THEN 1 ELSE intf_req_id[i]]
  /\ existing_devs' = [i \in IntfIds |-> IF i \in ids THEN {} ELSE existing_devs[i]]

\* GCSystem.open_interface(id): a new GCInterface, one broadcast socket per address
open_interface(i) ==
  /\ ~intf_open[i]
  /\ IF check_open(sys_open) # "none" THEN
       /\ GtDone([NoGtCall EXCEPT !.op = "open_interface", !.intf = i], check_open(sys_open),
                 <<>>, <<>>, NoGtRet)
       /\ UNCHANGED <<intf_open, intf_req_id, existing_devs, open_devs>>
     ELSE
       /\ intf_open' = [intf_open EXCEPT ![i] = TRUE]
       /\ intf_req_id' = [intf_req_id EXCEPT ![i] = 1]
       /\ existing_devs' = [existing_devs EXCEPT ![i] = {}]
       /\ open_devs' = [open_devs EXCEPT ![i] = {}]
       /\ GtDone([NoGtCall EXCEPT !.op = "open_interface", !.intf = i], "ok", <<>>, <<>>,
                 [NoGtRet EXCEPT !.intf = i])
  /\ UNCHANGED <<sys_open, closed_intfs>>
  /\ GentlFrame

\* mutant: close leaves the devices of the interface open
devices_left_open(devs) == devs

\* GCInterface.close, "for device in self.open_devices: device.close()": the
\* devices of the interface that are open afterwards
devices_left(devs) == {}

\* GCInterface.close() of an open interface: the sockets and the open devices are
\* closed
interface_closing(i) ==
  /\ intf_open[i]
  /\ InterfacesClosed({i})
  /\ open_devs' = [open_devs EXCEPT ![i] = devices_left(@)]
  /\ GtDone([NoGtCall EXCEPT !.op = "close", !.intf = i], "ok", <<>>, <<>>, NoGtRet)
  /\ UNCHANGED sys_open
  /\ GentlFrame

\* GCInterface.close(), the caller dropping the object afterwards
interface_close(i) ==
  /\ interface_closing(i)
  /\ UNCHANGED closed_intfs

\* GCInterface.close(), the caller keeping the closed object
interface_close_held(i) ==
  /\ interface_closing(i)
  /\ closed_intfs' = closed_intfs \cup {i}

\* the public methods of GCInterface
InterfaceMethods == {"close", "get_info", "get_device_id", "get_device_info", "get_num_devices",
                     "open_devices", "open_device", "update_device_list", "gvcp_discovery",
                     "gvcp_forceip"}

\* a method of a closed GCInterface object is called: _check_open raises
closed_interface_call(i) ==
  /\ i \in closed_intfs
  /\ \E m \in InterfaceMethods :
       GtDone([NoGtCall EXCEPT !.op = m, !.intf = i], check_open(FALSE), <<>>, <<>>, NoGtRet)
  /\ UNCHANGED <<intf_open, intf_req_id, existing_devs, open_devs, sys_open, closed_intfs>>
  /\ GentlFrame

\* mutant: GCSystem.close leaves its interfaces open
interfaces_to_close_none(open) == {}

\* GCSystem.close, "for intf in self.open_interfaces: intf.close()": the interfaces
\* it closes
interfaces_to_close(open) == {i \in IntfIds : open[i]}

\* GCSystem.close()
system_close ==
  /\ IF check_open(sys_open) # "none" THEN
       /\ GtDone([NoGtCall EXCEPT !.op = "system_close"], check_open(sys_open), <<>>, <<>>, NoGtRet)
       /\ UNCHANGED <<intf_open, intf_req_id, existing_devs, open_devs, sys_open, closed_intfs>>
     ELSE
       /\ InterfacesClosed(interfaces_to_close(intf_open))
       /\ closed_intfs' = closed_intfs \cup interfaces_to_close(intf_open)
       /\ open_devs' = [i \in IntfIds |-> IF i \in interfaces_to_close(intf_open)
                                            THEN devices_left(open_devs[i]) ELSE open_devs[i]]
       /\ sys_open' = FALSE
       /\ GtDone([NoGtCall EXCEPT !.op = "system_close"], "ok", <<>>, <<>>, NoGtRet)
  /\ GentlFrame

\* GCInterface.update_device_list(timeout, ack_bcast)
update_device_list(i) ==
  /\ intf_req_id[i] <= MaxIntfId
  /\ \E ack_bcast \in BOOLEAN :
       LET c == [NoGtCall EXCEPT !.op = "update_device_list", !.intf = i,
                                !.ack_bcast = IF ack_bcast THEN "True" ELSE "False"] IN
       IF ~intf_open[i] THEN
         GtDone(c, "RuntimeError", <<>>, <<>>, NoGtRet) /\ UNCHANGED <<intf_req_id, existing_devs>>
       ELSE \E rxs \in Receptions(i, 1, intf_req_id[i], MaxAcks, TRUE) :
         \E u \in {device_list(i, 1, rxs, intf_req_id[i], {}, <<>>, ack_bcast)} :
            /\ existing_devs' = [existing_devs EXCEPT ![i] = u.cat]
            /\ intf_req_id' = [intf_req_id EXCEPT ![i] = u.req_id]
            /\ GtDone(c, IF u.err = "none" THEN "ok" ELSE u.err, u.sent, rxs, NoGtRet)
  /\ UNCHANGED <<intf_open, open_devs, sys_open, closed_intfs>>
  /\ GentlFrame

\* arguments of gvcp_forceip in the model: the camera, target addresses in and
\* out of the host's networks, netmasks (<<>>: None), a gateway
ForceMac == <<18, 52, 86, 120, 154, 188>>
ForceIps == {<<0, 0, 0, 0>>, <<10, 0, 1, 9>>, <<10, 0, 7, 9>>, <<192, 168, 1, 1>>}
ForceMasks == {<<>>, <<255, 255, 255, 0>>, <<255, 255, 0, 0>>}
ForceGateway == <<10, 0, 0, 1>>
\* how the wait for the FORCEIP_ACK ends when an ack was asked for
ForceAcks == {"ack", "timeout"}

RECURSIVE sel_soc_any_mask(_, _, _, _)
\* mutant: the requested netmask is not compared with the host's
sel_soc_any_mask(i, k, ip, netmask) ==
  IF k > Len(HostAddrs[i]) THEN 0
  ELSE IF Network(HostAddrs[i][k].address, HostAddrs[i][k].netmask) = Network(ip, HostAddrs[i][k].netmask)
    THEN k
  ELSE sel_soc_any_mask(i, k + 1, ip, netmask)

RECURSIVE sel_soc(_, _, _, _)
\* gvcp_forceip, the loop over self._info.addrs from address k on: the first
\* address in the target's network, with the requested netmask if one is given;
\* 0: none
sel_soc(i, k, ip, netmask) ==
  IF k > Len(HostAddrs[i]) THEN 0
  ELSE IF /\ Network(HostAddrs[i][k].address, HostAddrs[i][k].netmask) = Network(ip, HostAddrs[i][k].netmask)
          /\ (netmask = HostAddrs[i][k].netmask \/ netmask = <<>>)
    THEN k
  ELSE sel_soc(i, k + 1, ip, netmask)

\* gvcp_forceip up to the command: the exception raised, or the socket, the
\* netmask and gateway of the command and its broadcast-acknowledge flag
forceip_request(i, ip, netmask, force, ack_bcast) ==
  IF ip = <<0, 0, 0, 0>>
    THEN [err |-> "none", soc |-> 1, mask |-> <<0, 0, 0, 0>>, gateway |-> <<0, 0, 0, 0>>,
          bcast |-> ack_bcast = "True"]
  ELSE IF force
    THEN IF netmask = <<>>
           THEN [err |-> "ValueError", soc |-> 0, mask |-> <<>>, gateway |-> <<>>, bcast |-> FALSE]
           ELSE [err |-> "none", soc |-> 1, mask |-> netmask, gateway |-> ForceGateway,
                 bcast |-> ack_bcast # "False"]
  ELSE IF sel_soc(i, 1, ip, netmask) = 0
    THEN [err |-> "ValueError", soc |-> 0, mask |-> <<>>, gateway |-> <<>>, bcast |-> FALSE]
  ELSE [err |-> "none", soc |-> sel_soc(i, 1, ip, netmask),
        mask |-> HostAddrs[i][sel_soc(i, 1, ip, netmask)].netmask, gateway |-> ForceGateway,
        bcast |-> ack_bcast = "True"]

\* GCInterface.gvcp_forceip(mac, ip, netmask, def_gateway, force, ack, ack_bcast, timeout)
gvcp_forceip(i) ==
  /\ intf_req_id[i] <= MaxIntfId
  /\ \E ip \in ForceIps, netmask \in ForceMasks, force \in BOOLEAN,
        ack_bcast \in {"None", "True"}, ack \in BOOLEAN :
     \E w \in IF ack THEN ForceAcks ELSE {"ack"} :
       LET c == [NoGtCall EXCEPT !.op = "gvcp_forceip", !.intf = i, !.force = force, !.ack = ack,
                                !.ack_bcast = ack_bcast, !.ip = ip, !.netmask = netmask,
                                !.gateway = ForceGateway, !.mac = ForceMac]
           q == forceip_request(i, ip, netmask, force, ack_bcast)
       IN IF ~intf_open[i] THEN
            GtDone(c, "RuntimeError", <<>>, <<>>, NoGtRet) /\ UNCHANGED intf_req_id
          ELSE IF q.err # "none" THEN
            GtDone(c, q.err, <<>>, <<>>, NoGtRet) /\ UNCHANGED intf_req_id
          ELSE
            /\ intf_req_id' = [intf_req_id EXCEPT ![i] = NextRequestId(@)]
            /\ GtDone(c, IF w = "ack" THEN "ok" ELSE w,
                      <<Datagram(i, q.soc, GVCPForceIPCmd(intf_req_id[i], ForceMac, ip, q.mask,
                                                          q.gateway, q.bcast, ack))>>,
                      <<>>, NoGtRet)
  /\ UNCHANGED <<intf_open, existing_devs, open_devs, sys_open, closed_intfs>>
  /\ GentlFrame

\* the methods of the one GCInterface there is: every call names it
NextIntf ==
  \/ update_device_list(gt_call.intf)
  \/ gvcp_forceip(gt_call.intf)
  \/ interface_close(gt_call.intf)

\* one GCInterface as its constructor leaves it, of any of the host's interfaces
InitIntf ==
  /\ InitEngine
  /\ soc = "None"
  /\ timeout = 0
  /\ capability = 0
  /\ InitStream
  /\ buffer = <<>>
  /\ support = [f \in Features |-> "None"]
  /\ call = NoCall
  /\ api_result = "none"
  /\ sent = <<>>
  /\ ret = NoRet
  /\ \E i \in IntfIds :
       /\ intf_open = [j \in IntfIds |-> j = i]
       /\ gt_call = [NoGtCall EXCEPT !.op = "open_interface", !.intf = i]
       /\ gt_ret = [NoGtRet EXCEPT !.intf = i]
  /\ sys_open = TRUE
  /\ closed_intfs = {}
  /\ intf_req_id = [j \in IntfIds |-> 1]
  /\ existing_devs = [j \in IntfIds |-> {}]
  /\ open_devs = [j \in IntfIds |-> {}]
  /\ gt_result = "ok"
  /\ gt_sent = <<>>
  /\ gt_rx = <<>>

SpecIntf == InitIntf /\ [][NextIntf]_vars

\* ------------------------------------------------------------- GenTL: discover
\* FX10.DEV_INFO_VENDOR and FX10.DEV_INFO_MODEL, the device_type of the model
TargetType == [vendor |-> "Specim", model |-> "FX10e"]

\* how device_type(...), the constructor of FXBase, ends: it connects to the camera
DeviceInits == {"ok", "timeout"}

\* inf_addrs = list(filter(is_normal_ip, inf.get_info().addrs)); len(inf_addrs) > 0
has_normal_ip(i) == \E k \in 1..Len(HostAddrs[i]) : is_normal_ip(HostAddrs[i][k])

RECURSIVE TotalAcks(_)
\* datagrams in what the sockets of one interface received
TotalAcks(a) == IF a = <<>> THEN 0 ELSE Len(Head(a)) + TotalAcks(Tail(a))

RECURSIVE WalkReceptions(_, _)
\* what the sockets of interfaces n.. can receive during discover, at most budget
\* datagrams in all, each the answer of a camera to the DISCOVERY of its socket;
\* nothing is listened for on an interface without a normal address
WalkReceptions(n, budget) ==
  IF n > Len(Intfs) THEN {<<>>}
  ELSE IF ~has_normal_ip(Intfs[n]) THEN {<<<<>>>> \o rest : rest \in WalkReceptions(n + 1, budget)}
  ELSE UNION {{<<a>> \o rest : rest \in WalkReceptions(n + 1, budget - TotalAcks(a))} :
                a \in Receptions(Intfs[n], 1,
                                 IF intf_open[Intfs[n]] THEN intf_req_id[Intfs[n]] ELSE 1,
                                 budget, FALSE)}

\* mutant: only the vendor is compared
is_target_vendor(d, all) == all \/ TargetType.vendor = d.vendor

\* discover: "if all or (device_type.DEV_INFO_VENDOR == dev_vendor and
\* device_type.DEV_INFO_MODEL == dev_model)"
is_target(d, all) == all \/ (TargetType.vendor = d.vendor /\ TargetType.model = d.model)

RECURSIVE discover_walk(_, _, _, _)
\* discover, the loop over the interfaces from number n on: the open interfaces, their
\* allocators and catalogs, the datagrams sent, dev_list and the exception that
\* ended the loop ("none": it ran through)
discover_walk(n, rxs, all, st) ==
  IF n > Len(Intfs) THEN st
  ELSE LET i == Intfs[n]
           st1 == IF st.open[i] THEN st
                  ELSE [st EXCEPT !.open[i] = TRUE, !.req_id[i] = 1, !.cats[i] = {}]
       IN IF ~has_normal_ip(i) THEN discover_walk(n + 1, rxs, all, st1)
          ELSE LET u == device_list(i, 1, rxs[n], st1.req_id[i], {}, <<>>, FALSE)
                   st2 == [st1 EXCEPT !.req_id[i] = u.req_id, !.cats[i] = u.cat, !.sent = @ \o u.sent]
               IN IF u.err # "none" THEN [st2 EXCEPT !.err = u.err]
                  ELSE discover_walk(n + 1, rxs, all,
                         [st2 EXCEPT !.devs = @ \cup {[mac |-> d.mac, intf |-> i] :
                                                        d \in {x \in u.cat : is_target(x, all)}}])

\* mutant: discover leaves every interface it walked open
close_unnecessary_none(od) == [i \in IntfIds |-> TRUE]

\* discover, "Close unnecessary interfaces": those without an open device
close_unnecessary(od) == [i \in IntfIds |-> od[i] # {}]

\* GCSystem.discover(device_type, timeout, all)
discover ==
  /\ check_open(sys_open) = "none"
  /\ \A i \in IntfIds : intf_open[i] => intf_req_id[i] <= MaxIntfId
  /\ UNCHANGED sys_open
  /\ \E all \in BOOLEAN : \E rxs \in WalkReceptions(1, MaxAcks) :
     \E w \in {discover_walk(1, rxs, all,
                              [open |-> intf_open, req_id |-> intf_req_id, cats |-> existing_devs,
                               sent |-> <<>>, devs |-> {}, err |-> "none"])} :
       LET c == [NoGtCall EXCEPT !.op = "discover", !.all = all,
                                !.vendor = TargetType.vendor, !.model = TargetType.model]
           one == CHOOSE d \in w.devs : TRUE
           left == close_unnecessary(open_devs)
       IN IF w.err # "none" THEN
            \* update_device_list raised
            /\ intf_open' = w.open
            /\ intf_req_id' = w.req_id
            /\ existing_devs' = w.cats
            /\ open_devs' = open_devs
            /\ GtDone(c, w.err, w.sent, rxs, NoGtRet)
          ELSE IF w.devs = {} THEN
            \* "No cameras found!"
            /\ intf_open' = left
            /\ intf_req_id' = [i \in IntfIds |-> IF left[i] THEN w.req_id[i] ELSE 1]
            /\ existing_devs' = [i \in IntfIds |-> IF left[i] THEN w.cats[i] ELSE {}]
            /\ open_devs' = open_devs
            /\ GtDone(c, "ok", w.sent, rxs, NoGtRet)
          ELSE IF ~all /\ Cardinality(w.devs) = 1 THEN
            \* "Found 1 matching camera": inf.open_device(dev_id, device_type, ...)
            \E init \in IF one.mac \in open_devs[one.intf] THEN {"RuntimeError"} ELSE DeviceInits :
              IF init # "ok" THEN
                /\ intf_open' = w.open
                /\ intf_req_id' = w.req_id
                /\ existing_devs' = w.cats
                /\ open_devs' = open_devs
                /\ GtDone(c, init, w.sent, rxs, NoGtRet)
              ELSE
                LET od == [open_devs EXCEPT ![one.intf] = @ \cup {one.mac}]
                    kept == close_unnecessary(od)
                IN /\ intf_open' = kept
                   /\ intf_req_id' = [i \in IntfIds |-> IF kept[i] THEN w.req_id[i] ELSE 1]
                   /\ existing_devs' = [i \in IntfIds |-> IF kept[i] THEN w.cats[i] ELSE {}]
                   /\ open_devs' = od
                   /\ GtDone(c, "ok", w.sent, rxs, [NoGtRet EXCEPT !.device = one.mac, !.intf = one.intf])
          ELSE
            \* the list is printed; input() returns a str, so "input_num - 1" raises
            /\ intf_open' = w.open
            /\ intf_req_id' = w.req_id
            /\ existing_devs' = w.cats
            /\ open_devs' = open_devs
            /\ GtDone(c, "TypeError", w.sent, rxs, [NoGtRet EXCEPT !.list = w.devs])
  /\ UNCHANGED closed_intfs
  /\ GentlFrame

\* GCDevice.close() of an open device of interface i: it is no longer is_open
device_close(i) ==
  /\ \E mac \in open_devs[i] :
       /\ open_devs' = [open_devs EXCEPT ![i] = @ \ {mac}]
       /\ GtDone([NoGtCall EXCEPT !.op = "device_close", !.intf = i, !.mac = mac], "ok", <<>>, <<>>, NoGtRet)
  /\ UNCHANGED <<intf_open, intf_req_id, existing_devs, sys_open, closed_intfs>>
  /\ GentlFrame

\* GCSystem.discover(...) of a closed system: update_interface_list raises
discover_closed ==
  /\ check_open(sys_open) # "none"
  /\ \E all \in BOOLEAN :
       GtDone([NoGtCall EXCEPT !.op = "discover", !.all = all,
                              !.vendor = TargetType.vendor, !.model = TargetType.model],
              check_open(sys_open), <<>>, <<>>, NoGtRet)
  /\ UNCHANGED <<intf_open, intf_req_id, existing_devs, open_devs, sys_open, closed_intfs>>
  /\ GentlFrame

NextGentl ==
  \/ \E i \in IntfIds : open_interface(i)
  \/ \E i \in IntfIds : interface_close(i)
  \/ discover
  \/ \E i \in IntfIds : device_close(i)

\* a GCSystem as its constructor leaves it: no interface open, no camera connected
SpecGentl == Init /\ [][NextGentl]_vars

\* ---------------------------------------------------------- GenTL: closing
\* the camera discover found on eth1
FoundCamera == [mac |-> ForceMac, vendor |-> TargetType.vendor, model |-> TargetType.model]

\* a GCSystem whose discover() returned the camera on eth1, opened, and closed the
\* other interfaces it had opened, and whose open_interface("eth0") was called then
InitClose ==
  /\ InitEngine
  /\ soc = "None"
  /\ timeout = 0
  /\ capability = 0
  /\ InitStream
  /\ buffer = <<>>
  /\ support = [f \in Features |-> "None"]
  /\ call = NoCall
  /\ api_result = "none"
  /\ sent = <<>>
  /\ ret = NoRet
  /\ intf_open = [i \in IntfIds |-> i \in {"eth0", "eth1"}]
  /\ intf_req_id = [i \in IntfIds |-> IF i = "eth1" THEN 2 ELSE 1]
  /\ existing_devs = [i \in IntfIds |->
                        IF i = "eth1" THEN {GCDeviceInfo(HostAddrs[i][1], FoundCamera)} ELSE {}]
  /\ open_devs = [i \in IntfIds |-> IF i = "eth1" THEN {FoundCamera.mac} ELSE {}]
  /\ gt_call = [NoGtCall EXCEPT !.op = "open_interface", !.intf = "eth0"]
  /\ gt_result = "ok"
  /\ gt_sent = <<>>
  /\ gt_rx = <<>>
  /\ gt_ret = [NoGtRet EXCEPT !.intf = "eth0"]
  /\ sys_open = TRUE
  /\ closed_intfs = {}

NextClose ==
  \/ \E i \in IntfIds : open_interface(i)
  \/ \E i \in IntfIds : interface_close_held(i)
  \/ \E i \in IntfIds : closed_interface_call(i)
  \/ \E i \in IntfIds : device_close(i)
  \/ system_close
  \/ discover_closed

SpecClose == InitClose /\ [][NextClose]_vars

\* ====================================================================== claims
IsPrefix(s, r) == Len(s) <= Len(r) /\ \A i \in 1..Len(s) : s[i] = r[i]

\* a is the acknowledgement that completes thread t's command
FinalAck(a, t) == a.id = rid[t] /\ a.code = AckCode(req[t].cmd) /\ ~a.sev /\ a.lenok

\* the datagrams thread t's recv can return
Datagrams(t) == Acks(rid[t], req[t])

\* the heartbeat thread is started in this step
HeartbeatStarts == pc["heartbeat"] \in Terminated /\ pc'["heartbeat"] \notin Terminated

\* the caller makes a call in this step
CallerCalls == pc["caller"] = "idle" /\ <<pc["caller"], op["caller"], req["caller"], result["caller"], rx["caller"], log>>'
                                          # <<pc["caller"], op["caller"], req["caller"], result["caller"], rx["caller"], log>>

\* C1: at most one request per connection is in flight: a thread that has sent a
\* command and not yet consumed its final ack (or failed) holds the socket lock, so
\* no other thread is sending or receiving on the socket.
OneRequestInFlight == \A t \in Threads : pc[t] \in {"send", "recv"} => soc_lock = t

\* C1 witness: one thread awaits its ack while the other waits for the lock
RequestWaitsForLock ==
  \E t, u \in Threads : pc[t] = "recv" /\ xmit[t] >= 1 /\ pc[u] = "request"

\* C2 (as claimed): an operation that returns normally consumed an ack whose ack-id is
\* the request-id it sent, and an ack with another ack-id makes it fail with AckIdError.
AckIdDecides ==
  [][\A t \in Threads : \A a \in Datagrams(t) :
       /\ (recv(t, a) /\ result'[t] = "ok" => a.id = rid[t])
       /\ (recv(t, a) /\ a.id # rid[t] => result'[t] = "AckIdError")]_vars

\* C3 (as claimed): after a receive timeout the same command (same request-id) is sent
\* again; a command whose receives all time out is retried Retries times and then
\* fails with a timeout; a valid matching ack gives the caller its one result.
RetriedRetriesTimes ==
  [][\A t \in Threads :
       /\ recv_timeout(t) =>
            /\ pc'[t] = "send" => req'[t] = req[t] /\ rid'[t] = rid[t]
            /\ pc'[t] # "send" => xmit[t] - 1 = Retries
       /\ \A a \in Datagrams(t) :
            (recv(t, a) /\ FinalAck(a, t) /\ op[t] \in {"readreg", "writereg"})
              => pc'[t] = "idle" /\ result'[t] = "ok" /\ rx'[t] = a]_vars

\* C4: a request answered by PENDING(t1), PENDING(t2) and then its ack returns that
\* ack, and when it returns _pending is clear and the socket timeout is ack_timeout.
PendingThenAck ==
  [][\A t \in Threads : (pc[t] = "recv" /\ Len(seen[t]) = 2) =>
       \A a \in {d \in Datagrams(t) : FinalAck(d, t)} : recv(t, a)
         => /\ pc'[t] \notin {"send", "recv"}
            /\ result'[t] \in {"none", "ok"}
            /\ op[t] \in {"readreg", "writereg"} => rx'[t] = a
            /\ soc_lock' = "free"
            /\ pending' = FALSE
            /\ timeout' = SocTimeoutMs]_vars

\* C4 witness: a readreg has received two PENDING acks with different timeouts, the
\* first of which extended the socket timeout, and its final ack can arrive
PendingTwice ==
  /\ pc["caller"] = "recv" /\ op["caller"] = "readreg"
  /\ Len(seen["caller"]) = 2 /\ seen["caller"][1] # seen["caller"][2]
  /\ pending /\ timeout = seen["caller"][1] + PendingMarginMs
  /\ ENABLED (recv_ack("caller") /\ result'["caller"] = "ok" /\ timeout' = SocTimeoutMs)

\* what a connect that is refused control does, in order; one that is granted
\* control does all but the last
ConnectTrace ==
  <<Event("open"), WriteCcp(VAL_CONTROL_ACCESS), WriteHeartbeat, ReadReg(REG_CCP), Event("close")>>

\* C5: connect on a disconnected connection sends WRITEREG(CCP <- 2),
\* WRITEREG(HEARTBEAT_TIMEOUT <- 5000) and READREG(CCP) in that order (a command
\* re-sent after a receive timeout is the same packet); the heartbeat thread is
\* started exactly when that read returned 2; when it returned another value the
\* socket is closed, the connection is disconnected and NotConnectedError is raised.
ConnectClaimsControl ==
  /\ [](op["caller"] = "connect" => IsPrefix(log, ConnectTrace))
  /\ [][/\ HeartbeatStarts =>
             /\ op["caller"] = "connect" /\ req["caller"] = ReadReg(REG_CCP)
             /\ \E a \in Datagrams("caller") :
                  recv("caller", a) /\ FinalAck(a, "caller") /\ a.val = VAL_CONTROL_ACCESS
             /\ result'["caller"] = "ok"
        /\ \A a \in Datagrams("caller") :
             (op["caller"] = "connect" /\ req["caller"] = ReadReg(REG_CCP)
                /\ recv("caller", a) /\ FinalAck(a, "caller"))
               => IF a.val = VAL_CONTROL_ACCESS
                    THEN HeartbeatStarts /\ soc' = "open"
                    ELSE ~HeartbeatStarts /\ pc'["caller"] = "connect_fail"
        /\ (pc["caller"] = "connect_fail" /\ pc'["caller"] # "connect_fail")
             => /\ soc' = "None" /\ nOpen' = 0
                /\ result'["caller"] = "NotConnectedError"
                /\ pc'["heartbeat"] \in Terminated]_vars

\* C5 witness: connect returned after its three commands with the heartbeat running
ConnectedWithHeartbeat ==
  /\ op["caller"] = "connect" /\ result["caller"] = "ok"
  /\ log = SubSeq(ConnectTrace, 1, 4)
  /\ rx["caller"].val = VAL_CONTROL_ACCESS
  /\ pc["heartbeat"] = "hb_loop" /\ heartbeat_thread

\* C6: when a heartbeat READREG(CCP) returns a value other than 2, or times out
\* after the retry budget, the heartbeat thread closes the socket, makes the
\* connection disconnected and terminates, and an operation other than connect
\* started on the disconnected connection fails with NotConnectedError.
HeartbeatLoss ==
  /\ [][/\ pc["heartbeat"] = "recv" =>
             \A a \in {d \in Datagrams("heartbeat") : FinalAck(d, "heartbeat")} :
               recv("heartbeat", a)
                 => pc'["heartbeat"] = IF a.val = VAL_CONTROL_ACCESS THEN "hb_loop" ELSE "hb_close"
        /\ (pc["heartbeat"] = "recv" /\ retry["heartbeat"] = Retries /\ recv_timeout("heartbeat"))
             => pc'["heartbeat"] = "hb_close"
        /\ (pc["heartbeat"] = "hb_close" /\ pc'["heartbeat"] # "hb_close")
             => pc'["heartbeat"] = "hb_none" /\ soc' = "closed" /\ nOpen' = 0
        /\ (pc["heartbeat"] = "hb_none" /\ pc'["heartbeat"] # "hb_none")
             => pc'["heartbeat"] = "lost" /\ soc' = "None"
        /\ (CallerCalls /\ soc = "None" /\ op'["caller"] # "connect")
             => /\ result'["caller"] = "NotConnectedError" /\ pc'["caller"] = "idle"
                /\ log' = <<>> /\ req_id' = req_id]_vars
  /\ (pc["heartbeat"] = "hb_close") ~> (pc["heartbeat"] = "lost" /\ soc = "None" /\ nOpen = 0)

\* C6 witness: the heartbeat thread ended on a lost connection and the caller's next
\* readreg was refused
RefusedAfterLoss ==
  /\ pc["heartbeat"] = "lost" /\ soc = "None" /\ nOpen = 0
  /\ op["caller"] = "readreg" /\ result["caller"] = "NotConnectedError"

\* C7 (as claimed): an operation that is inside a request, or past its connected
\* check, when the heartbeat tears the connection down never fails with the error
\* of using a closed socket (OSError) or a socket that is None (AttributeError).
NoSocketFailure ==
  [][\A t \in Threads \ {"heartbeat"} :
       pc[t] \in {"send", "recv", "disconnect_close"}
         => result'[t] \notin {"AttributeError", "OSError"}]_vars

\* what a disconnect that returns does, in order
DisconnectTrace == <<Event("signal"), WriteCcp(0), Event("join"), Event("close")>>

\* C8: disconnect signals the heartbeat to stop, sends WRITEREG(CCP <- 0), joins the
\* heartbeat thread and closes the socket, in that order; once it has returned the
\* connection is disconnected, the heartbeat thread has terminated, and the
\* heartbeat runs (and sends) again only if connect starts it.
DisconnectStopsHeartbeat ==
  /\ [](op["caller"] = "disconnect" =>
          /\ IsPrefix(log, DisconnectTrace)
          /\ (pc["caller"] = "idle" /\ result["caller"] = "ok") =>
                /\ log = DisconnectTrace
                /\ soc = "None" /\ nOpen = 0
                /\ pc["heartbeat"] \in Terminated
                /\ ~heartbeat_disable)
  /\ [][HeartbeatStarts => op["caller"] = "connect"]_vars

\* C8 witness: disconnect returned and the heartbeat thread had stopped on the signal
DisconnectReturned ==
  /\ op["caller"] = "disconnect" /\ pc["caller"] = "idle" /\ result["caller"] = "ok"
  /\ pc["heartbeat"] = "stopped"

\* C9 (as claimed): no two requests of a connection that are outstanding together
\* carry the same request-id, under every interleaving of the caller and the
\* heartbeat thread.
UniqueRequestIds ==
  \A t, u \in Threads : (t # u /\ rid[t] # 0 /\ rid[u] # 0) => rid[t] # rid[u]

\* C10: the allocator of a fresh connection returns 1 first and then, on each call,
\* the previous value plus 1, except that the call after 65535 returns 1; it never
\* returns 0 or a value above 65535.  (rid = 0: no call was made yet)
AllocatorSequence ==
  [][rid'["caller"] = IF rid["caller"] \in {0, MaxRequestId} THEN 1 ELSE rid["caller"] + 1]_vars

\* C10 witness: 65535 was handed out and the counter wrapped
AllocatorWrapped == rid["caller"] = MaxRequestId /\ req_id = 1


\* no thread has a request in flight
Quiet == \A t \in Threads : pc[t] \notin {"send", "recv"}

\* the connection reports connected and its heartbeat thread is running
HoldsControl == connected /\ pc["heartbeat"] \notin Terminated

\* C11 (as claimed): whenever no request is in flight, the connection holds control
\* (connected, heartbeat running) if and only if the last successful read of CCP
\* returned 2.  Stated for the states in which the heartbeat thread is between two
\* reads or disconnect has returned.
ControlIffCcp ==
  (/\ Quiet
   /\ \/ pc["heartbeat"] \in {"hb_loop", "hb_wait"}
      \/ op["caller"] = "disconnect" /\ pc["caller"] = "idle" /\ result["caller"] = "ok")
    => (HoldsControl <=> ccp_last = VAL_CONTROL_ACCESS)

\* C11 (amended): whenever the heartbeat thread is running and has not begun to tear
\* the connection down, the connection reports connected and the last successful
\* read of CCP that connect or the heartbeat thread made returned 2.
ControlImpliesCcp ==
  pc["heartbeat"] \notin (Terminated \cup {"hb_close", "hb_none"})
    => soc = "open" /\ ccp_own = VAL_CONTROL_ACCESS

\* C11 witness: the connection holds control after a caller's readreg(CCP) returned 0
ControlAfterCallerReadZero ==
  /\ Quiet /\ HoldsControl /\ pc["heartbeat"] = "hb_wait"
  /\ ccp_own = VAL_CONTROL_ACCESS /\ ccp_last = 0
  /\ op["caller"] = "readreg" /\ result["caller"] = "ok"


\* C12: every operation other than connect (disconnect, discovery, readreg,
\* writereg, readmem, writemem, action, get_device_description_url,
\* get_device_description_file) called on a connection that is not connected raises
\* NotConnectedError, sends no packet and leaves the request-id counter alone.
NotConnectedRaises ==
  [][soc = "None" =>
       /\ req_id' = req_id
       /\ xmit' = xmit
       /\ \/ /\ call' = call /\ api_result' = api_result /\ sent' = sent
             /\ op'["caller"] = "disconnect"
             /\ result'["caller"] = "NotConnectedError"
          \/ /\ call'.op # "none"
             /\ api_result' = "NotConnectedError"
             /\ sent' = <<>>]_vars

\* C12 witness: disconnect and then get_device_description_file were refused on a
\* connection that is not connected, the counter still at its first value
RefusedWhenNotConnected ==
  /\ soc = "None"
  /\ op["caller"] = "disconnect" /\ result["caller"] = "NotConnectedError"
  /\ call.op = "get_device_description_file" /\ api_result = "NotConnectedError"
  /\ sent = <<>> /\ req_id = 1


\* C13: connect on a connection that is already connected raises IsConnectedError,
\* sends no packet, leaves the socket, the heartbeat thread and the request-id
\* counter as they were and returns with the socket mutex released.
ConnectRefused ==
  [][(pc["caller"] = "connect_open" /\ pc'["caller"] # "connect_open" /\ soc # "None") =>
       /\ result'["caller"] = "IsConnectedError"
       /\ pc'["caller"] = "idle"
       /\ xmit' = xmit /\ log' = <<>>
       /\ soc' = soc /\ timeout' = timeout /\ nOpen' = nOpen
       /\ heartbeat_thread' = heartbeat_thread /\ pc'["heartbeat"] = pc["heartbeat"]
       /\ heartbeat_disable' = heartbeat_disable
       /\ req_id' = req_id
       /\ soc_lock' = "free"]_vars

\* C13 witness: connect was refused on a connection whose heartbeat thread runs
ConnectRefusedWhileRunning ==
  /\ op["caller"] = "connect" /\ pc["caller"] = "idle" /\ result["caller"] = "IsConnectedError"
  /\ soc = "open" /\ pc["heartbeat"] \notin Terminated /\ soc_lock = "free"
  /\ req_id > 1


\* the optional features a call asks the device for, in the order they are checked
Needs(c) ==
  CASE c.op \in {"readreg", "writereg"} -> IF c.n > 1 THEN {"concat"} ELSE {}
    [] c.op = "writemem" -> {"writemem"}
    [] c.op = "action" -> IF c.sched THEN {"action", "scheduled_action"} ELSE {"action"}
    [] OTHER -> {}

\* the device's capability register has the bit of feature f clear (bits 0, 1, 6, 17)
Lacks(f) ==
  LET weight == CASE f = "concat" -> 1 [] f = "writemem" -> 2 [] f = "action" -> 64 [] OTHER -> 131072
  IN (capability \div weight) % 2 = 0

\* the packet is the read of GVCP_CAPABILITY that _check_capability sends
IsProbe(p) == p.cmd = "READREG" /\ p.n = 1 /\ p.addr = Addr(0, REG_GVCP_CAPABILITY)

\* C14: readreg or writereg with more than one address, writemem, action and
\* scheduled action called on a connection to a device whose capability register
\* lacks the feature's bit raise NotImplementedError, and the command itself is
\* never sent: nothing but the read of the capability register goes out, and the
\* call fails otherwise only when that read got no answer.
UnsupportedNotSent ==
  (soc # "None" /\ \E f \in Needs(call) : Lacks(f)) =>
    /\ \A i \in 1..Len(sent) : IsProbe(sent[i])
    /\ \/ api_result = "NotImplementedError"
       \/ /\ api_result = "timeout" /\ Len(sent) = 1
          /\ \A f \in Features : support[f] = "None"

\* C14 witness: a scheduled action was refused by flags read earlier, for a device
\* that has ACTION but not scheduled ACTION, and nothing was sent
ScheduledActionRefused ==
  /\ soc = "open" /\ call.op = "action" /\ call.sched
  /\ ~Lacks("action") /\ Lacks("scheduled_action")
  /\ api_result = "NotImplementedError" /\ sent = <<>>


\* the reads of GVCP_CAPABILITY among the packets ps
Probes(ps) == {i \in 1..Len(ps) : IsProbe(ps[i])}

\* C15: GVCP_CAPABILITY is read at most once per connection.  The first operation
\* that needs an optional feature sends one READREG of 0x934 before anything else
\* and, when it is answered, all four flags are cached from the register's bits;
\* a cached flag never changes and no later operation sends that read again.
CapabilityReadOnce ==
  [][soc # "None" =>
       /\ Cardinality(Probes(sent')) <= 1
       /\ (\E f \in Features : support[f] # "None") =>
            (Probes(sent') = {} /\ support' = support)
       /\ ((\A f \in Features : support[f] = "None") /\ Needs(call') # {}) =>
            Probes(sent') = {1}
       /\ Probes(sent') # {} =>
            \/ \A f \in Features : support'[f] = IF Lacks(f) THEN "False" ELSE "True"
            \/ api_result' = "timeout" /\ Len(sent') = 1 /\ support' = support]_vars

\* C15 witness: a writemem went out without a read of the capability register,
\* on flags that an earlier operation had cached
WritememOnCachedFlags ==
  /\ soc = "open" /\ call.op = "writemem" /\ api_result = "ok"
  /\ Len(sent) = 1 /\ sent[1].cmd = "WRITEMEM" /\ sent[1].id > 2
  /\ \A f \in Features : support[f] # "None"


\* the 32-bit words of a value readreg returned
WordsOf(r) == IF r.kind = "bytes" THEN bytes_to_uint32_list(r.words) ELSE r.words

\* C16 (as claimed): a readreg with N addresses that returns normally yields
\* exactly N words, the registers' values in the order of the addresses; an
\* acknowledgement with another number of words is not returned as success.
ReadregYieldsNWords ==
  (call.op = "readreg" /\ api_result = "ok") =>
    WordsOf(ret) = [i \in 1..call.n |-> DeviceWord(i)]


\* v is a multiple of 4 in 0..0xffffffff
Aligned(v) == v.hi \in 0..(HalfWord - 1) /\ v.lo % 4 = 0

\* the arguments of call c are invalid in one of the ways C17 lists
InvalidArguments(c) ==
  CASE c.op = "readreg" -> c.n = 0 \/ c.n > 135 \/ ~Aligned(c.last)
    [] c.op = "writereg" -> c.n = 0 \/ c.n > 67 \/ c.nvals # c.n \/ ~Aligned(c.last)
    [] c.op = "readmem" -> c.count < 1 \/ c.count % 4 # 0 \/ c.count > 536 \/ ~Aligned(c.last)
    [] c.op = "writemem" -> c.count = 0 \/ c.count > 536 \/ ~Aligned(c.last)
    [] OTHER -> FALSE

\* C17 (as claimed): a command with invalid arguments is rejected with ValueError
\* before any packet is sent, and the connection stays connected.
InvalidRejectedUnsent ==
  (soc = "open" /\ InvalidArguments(call)) => (api_result = "ValueError" /\ sent = <<>>)


RecordedIffNotIntercepted ==
  [][frames' # frames =>
       LET f == frames'[Len(frames')]
       IN /\ f.cb = "absent" <=> frame_cb = "None"
          /\ IF record /\ f.cb # "true"
               THEN buffer' = Append(buffer, f.block)
               ELSE buffer' = buffer]_vars

\* C20 witness: of two frames delivered while recording, the first, which the
\* callback let pass, is in the queue and the second, which it intercepted, is not
InterceptedNotRecorded ==
  /\ Len(frames) = 2 /\ frames[1].rec /\ frames[2].rec
  /\ frames[1].cb = "false" /\ frames[2].cb = "true"
  /\ record /\ receiving /\ buffer = <<frames[1].block>>

\* C28 (as claimed): in the receive loop the ack-id is checked before the severity bit:
\* an ack with another ack-id fails the request with AckIdError also when its severity
\* bit is set, and an ack with the matching id and the severity bit set fails it with
\* AckError carrying the parsed ack.
AckIdCheckedFirst ==
  [][\A t \in Threads : \A a \in {d \in Datagrams(t) : d.sev /\ d.lenok} :
       recv(t, a) => /\ pc'[t] \notin {"send", "recv"}
                     /\ rx'[t] = a
                     /\ result'[t] = IF a.id # rid[t] THEN "AckIdError" ELSE "AckError"]_vars

\* C29 (as claimed): whenever a request/reply sequence ends, by returning an ack or by
\* raising (AckError, AckIdError, AckLengthError, or the timeout that exhausts the
\* retries), _pending is false and the socket timeout is ack_timeout again: a timeout
\* extended by a PENDING ack never outlives the request that received it.
PendingEndsWithRequest ==
  [][\A t \in Threads :
       (pc[t] = "recv" /\ soc_error = "none" /\ pc'[t] \notin {"send", "recv"}
          /\ result'[t] \in {"none", "ok", "AckError", "AckIdError", "AckLengthError", "timeout"})
         => ~pending' /\ timeout' = SocTimeoutMs]_vars

\* C30 (as claimed): every PENDING ack received for a request, not only the first one,
\* sets the socket timeout to the timeout that ack proposes plus 10 ms and sets
\* _pending, after which the loop receives again without sending the command again.
EveryPendingExtends ==
  [][\A t \in Threads :
       \A a \in {d \in Datagrams(t) : d.code = "PENDING_ACK" /\ d.id = rid[t] /\ ~d.sev /\ d.lenok} :
         recv(t, a) => /\ pending'
                       /\ timeout' = a.ptime + PendingMarginMs
                       /\ pc'[t] = "recv"
                       /\ xmit'[t] = xmit[t]]_vars

RECURSIVE CountSum(_, _)
\* the byte counts of the first k packets of ps, added up
CountSum(ps, k) == IF k = 0 THEN 0 ELSE CountSum(ps, k - 1) + ps[k].n

\* C24 (as claimed): for a local description URL with address A and length L >= 1,
\* get_device_description_file reads the file with READMEM requests of at most 512
\* bytes each, at consecutive addresses from A, every count a positive multiple of 4,
\* L rounded up to a multiple of 4 in total, and goes on to cut the data to L bytes
\* (no request is refused), for every L, multiples of 512 included.
DescriptionFileChunks ==
  (call.op = "get_device_description_file" /\ call.count >= 1
     /\ api_result \notin {"NotConnectedError", "timeout"})
    => LET rd == Tail(sent)
           A == call.last
           L == call.count
       IN /\ Len(rd) >= 1
          /\ \A i \in 1..Len(rd) :
               /\ rd[i].cmd = "READMEM"
               /\ rd[i].n \in 1..DDF_PACKET_SIZE /\ rd[i].n % 4 = 0
               /\ rd[i].addr = Addr(0, A.lo + CountSum(rd, i - 1))
          /\ CountSum(rd, Len(rd)) = 4 * ((L + 3) \div 4)
          /\ api_result # "ValueError"

\* C25 (as claimed): get_device_description_file returns the XML text when the
\* description URL is local or file with extension xml or zip, raises
\* NotImplementedError for an http URL and AckValueError for any other scheme or
\* extension (the requests it sends being answered).
DescriptionFileByUrl ==
  (call.op = "get_device_description_file" /\ api_result \notin {"NotConnectedError", "timeout"})
    => IF call.location = "http" THEN api_result = "NotImplementedError"
       ELSE IF call.location \in {"local", "file"} /\ call.extension \in {"xml", "zip"}
         THEN api_result = "ok" /\ ret.kind = "xml"
       ELSE api_result = "AckValueError"

\* a stream method that checks the stream channel first is called in this step
StreamMethodCalled == close_stream \/ start_acquire \/ stop_acquire \/ dark_ref_acquire

\* C27: close_stream, start_acquire, stop_acquire and dark_ref_acquire raise
\* StreamClosedError when the camera is connected and GevSCPHostPort reads 0, and
\* NotConnectedError when it is not connected; in both cases the call writes no
\* stream register, neither starts nor stops the receive task, and leaves the
\* recording queue (and the stream settings) as they were.
StreamCheckRaises ==
  [][(StreamMethodCalled /\ (~connected \/ (scp_port = 0 /\ fx_result' # "timeout")))
       => /\ fx_result' = IF connected THEN "StreamClosedError" ELSE "NotConnectedError"
          /\ \A i \in DOMAIN fx_log' : fx_log'[i].eff = "read"
          /\ UNCHANGED <<scp_port, gvsp_open, gvsp_parts, receiving, record, frame_cb, buffer, dark>>]_vars

\* C27 witness: stop_acquire was refused with StreamClosedError while the receive
\* task was running with frames recorded (the stream was closed during acquisition)
StopRefusedStreamClosed ==
  /\ fx_call = "stop_acquire" /\ fx_result = "StreamClosedError"
  /\ connected /\ scp_port = 0
  /\ receiving /\ record /\ buffer # <<>>

\* the request-id in the header of a command
SentId(data) == data[7] * 256 + data[8]

\* the acks socket k received that the collection is to keep: positions in gt_rx[k]
\* of the DISCOVERY_ACKs of length 248 without error status that echo the
\* request-id of the DISCOVERY sent through socket k
KeptAcks(k) ==
  {j \in DOMAIN gt_rx[k] :
     /\ gt_rx[k][j].code = "DISCOVERY_ACK"
     /\ gt_rx[k][j].length = DiscoveryAckLength
     /\ gt_rx[k][j].lenok
     /\ ~gt_rx[k][j].sev
     /\ gt_rx[k][j].id = SentId(gt_sent[k].data)}

\* C21: update_device_list of an open interface returns with the catalog holding
\* exactly the devices whose DISCOVERY_ACK arrived before the receive timed out, was
\* a DISCOVERY_ACK of length 248 without error status and echoed the request-id of
\* the DISCOVERY just sent, one entry per MAC address; no other ack ends the
\* collection
CatalogIsWhatAnswered ==
  (gt_call.op = "update_device_list" /\ gt_result # "RuntimeError") =>
    /\ gt_result = "ok"
    /\ Len(gt_sent) = Len(gt_rx)
    /\ {d.mac : d \in existing_devs[gt_call.intf]}
         = UNION {{gt_rx[k][j].mac : j \in KeptAcks(k)} : k \in DOMAIN gt_rx}
    /\ \A d \in existing_devs[gt_call.intf] :
         /\ \A d2 \in existing_devs[gt_call.intf] : d2.mac = d.mac => d2 = d
         /\ \E k \in DOMAIN gt_rx : \E j \in KeptAcks(k) :
              d = GCDeviceInfo(HostAddrs[gt_call.intf][k], gt_rx[k][j])

\* a call of update_device_list or gvcp_forceip has just returned
InterfaceCommandStep ==
  /\ gt_call'.op \in {"update_device_list", "gvcp_forceip"}
  /\ gentl' # gentl

\* every datagram of the call went to 255.255.255.255:3956 with the request-ids
\* the interface's allocator gave next, one after the other
NextIdsSent ==
  /\ \A k \in DOMAIN gt_sent' :
       /\ gt_sent'[k].dest = [ip |-> <<255, 255, 255, 255>>, port |-> 3956]
       /\ gt_sent'[k].intf = gt_call'.intf
       /\ SentId(gt_sent'[k].data) = Advance(intf_req_id[gt_call'.intf], k - 1)
  /\ intf_req_id'[gt_call'.intf] = Advance(intf_req_id[gt_call'.intf], Len(gt_sent'))
  /\ \A j \in IntfIds \ {gt_call'.intf} : intf_req_id'[j] = intf_req_id[j]

\* the call is update_device_list on an open interface that has sent nothing yet
FirstDiscoveryStep ==
  /\ InterfaceCommandStep
  /\ gt_call'.op = "update_device_list"
  /\ intf_open[gt_call'.intf]
  /\ intf_req_id[gt_call'.intf] = 1
  /\ gt_sent' # <<>>

\* C23 as stated: the first DISCOVERY of a freshly opened interface is always the
\* packet 42 01 00 02 00 00 00 01, sent to 255.255.255.255:3956, and each later
\* DISCOVERY or FORCEIP carries the next request-id of the interface's allocator
FirstDiscoveryAlwaysPlain ==
  [][/\ FirstDiscoveryStep => gt_sent'[1].data = <<66, 1, 0, 2, 0, 0, 0, 1>>
     /\ InterfaceCommandStep => NextIdsSent]_vars

\* C23: the first DISCOVERY of a freshly opened interface is the packet
\* 42 01 00 02 00 00 00 01 when no broadcast acknowledgement is asked for and
\* 42 11 00 02 00 00 00 01 when it is, sent to 255.255.255.255:3956; each later
\* DISCOVERY or FORCEIP carries the next request-id of the interface's allocator
FirstDiscoveryPacket ==
  [][/\ FirstDiscoveryStep =>
          gt_sent'[1].data = IF gt_call'.ack_bcast = "True" THEN <<66, 17, 0, 2, 0, 0, 0, 1>>
                             ELSE <<66, 1, 0, 2, 0, 0, 0, 1>>
     /\ InterfaceCommandStep => NextIdsSent]_vars

\* an interface found a camera with its first DISCOVERY and then sent a FORCEIP,
\* which carries request-id 2
ForceIpAfterFirstDiscovery ==
  /\ gt_call.op = "gvcp_forceip"
  /\ gt_result = "ok"
  /\ Len(gt_sent) = 1
  /\ SentId(gt_sent[1].data) = 2
  /\ gt_sent[1].data[3] * 256 + gt_sent[1].data[4] = FORCEIP_CMD
  /\ existing_devs[gt_call.intf] # {}

\* the host addresses of interface i that are in the network of ip by their own
\* netmask, and have the netmask asked for if one is asked for
Qualifying(i, ip, netmask) ==
  {k \in 1..Len(HostAddrs[i]) :
     /\ Network(HostAddrs[i][k].address, HostAddrs[i][k].netmask) = Network(ip, HostAddrs[i][k].netmask)
     /\ (netmask = <<>> \/ netmask = HostAddrs[i][k].netmask)}

\* the first of a set of socket numbers
First(Q) == CHOOSE k \in Q : \A j \in Q : k <= j

\* gvcp_forceip has just returned, on an interface that was open
ForceIpStep ==
  /\ gt_call'.op = "gvcp_forceip"
  /\ gentl' # gentl
  /\ intf_open[gt_call'.intf]

\* the call sent nothing and took no request-id
NothingSent ==
  /\ gt_sent' = <<>>
  /\ intf_req_id' = intf_req_id

\* the call sent one FORCEIP through socket k for the address asked for, with
\* netmask m and gateway g, and took one request-id
ForceIpSent(k, m, g) ==
  /\ Len(gt_sent') = 1
  /\ gt_sent'[1].soc = k
  /\ Len(gt_sent'[1].data) = 64
  /\ SubSeq(gt_sent'[1].data, 11, 16) = gt_call'.mac
  /\ SubSeq(gt_sent'[1].data, 29, 32) = gt_call'.ip
  /\ SubSeq(gt_sent'[1].data, 45, 48) = m
  /\ SubSeq(gt_sent'[1].data, 61, 64) = g
  /\ intf_req_id'[gt_call'.intf] = NextRequestId(intf_req_id[gt_call'.intf])

\* C26: gvcp_forceip for a nonzero address, not forced, sends the FORCEIP through
\* the socket of the first host address whose network equals the target's and
\* whose netmask is the requested one when one is given, with that host netmask in
\* the command; if no host address qualifies, or if it is forced without a
\* netmask, it raises ValueError, sends nothing and takes no request-id; for
\* address 0.0.0.0 it sends the command with netmask and gateway zero whatever
\* the host's networks
ForceIpSocket ==
  [][ForceIpStep =>
       IF gt_call'.ip = <<0, 0, 0, 0>>
         THEN ForceIpSent(gt_sent'[1].soc, <<0, 0, 0, 0>>, <<0, 0, 0, 0>>)
       ELSE IF gt_call'.force
         THEN gt_call'.netmask = <<>> => (gt_result' = "ValueError" /\ NothingSent)
       ELSE IF Qualifying(gt_call'.intf, gt_call'.ip, gt_call'.netmask) = {}
         THEN gt_result' = "ValueError" /\ NothingSent
       ELSE ForceIpSent(First(Qualifying(gt_call'.intf, gt_call'.ip, gt_call'.netmask)),
                        HostAddrs[gt_call'.intf][First(Qualifying(gt_call'.intf, gt_call'.ip,
                                                                  gt_call'.netmask))].netmask,
                        gt_call'.gateway)]_vars

\* a FORCEIP for an address in the networks of both host addresses of an
\* interface went through the second socket, whose netmask is the one asked for
ForceIpBySecondSocket ==
  /\ gt_call.op = "gvcp_forceip"
  /\ ~gt_call.force
  /\ gt_call.netmask = <<255, 255, 0, 0>>
  /\ Cardinality(Qualifying(gt_call.intf, gt_call.ip, <<>>)) = 2
  /\ Len(gt_sent) = 1
  /\ gt_sent[1].soc = 2

RECURSIVE FlatAcks(_)
\* what the sockets of one interface received, in the order it was read
FlatAcks(a) == IF a = <<>> THEN <<>> ELSE Head(a) \o FlatAcks(Tail(a))

\* the cameras that answered during a discover that received rxs, each with the
\* interface it answered on and the vendor and model of its last answer there
Found(rxs) ==
  UNION {{[mac |-> FlatAcks(rxs[n])[j].mac, intf |-> Intfs[n],
           vendor |-> FlatAcks(rxs[n])[j].vendor, model |-> FlatAcks(rxs[n])[j].model] :
            j \in {j \in DOMAIN FlatAcks(rxs[n]) :
                     \A l \in DOMAIN FlatAcks(rxs[n]) :
                       FlatAcks(rxs[n])[l].mac = FlatAcks(rxs[n])[j].mac => l <= j}} :
         n \in DOMAIN rxs}

\* those of the target's vendor and model, as (device id, interface)
Matches(rxs) ==
  {[mac |-> d.mac, intf |-> d.intf] :
     d \in {x \in Found(rxs) : x.vendor = gt_call'.vendor /\ x.model = gt_call'.model}}

\* every camera that answered, as (device id, interface)
AllFound(rxs) == {[mac |-> d.mac, intf |-> d.intf] : d \in Found(rxs)}

\* some answer has a name that is not UTF-8
Undecodable(rxs) ==
  \E n \in DOMAIN rxs : \E j \in DOMAIN FlatAcks(rxs[n]) : ~FlatAcks(rxs[n])[j].text

\* discover has just ended
DiscoverStep ==
  /\ gt_call'.op = "discover"
  /\ gentl' # gentl

\* discover returned device d, open, with its interface, open
ReturnedOpened(d) ==
  /\ gt_result' = "ok"
  /\ gt_ret' = [NoGtRet EXCEPT !.device = d.mac, !.intf = d.intf]
  /\ open_devs' = [open_devs EXCEPT ![d.intf] = @ \cup {d.mac}]
  /\ intf_open'[d.intf]

\* discover returned (None, None) and opened no device
ReturnedNothing ==
  /\ gt_result' = "ok"
  /\ gt_ret' = NoGtRet
  /\ open_devs' = open_devs

\* discover showed the list ds and opened no device
ListSurfaced(ds) ==
  /\ gt_ret'.list = ds
  /\ gt_ret'.device = <<>>
  /\ open_devs' = open_devs

Rejected(a, t) ==
  \/ ~a.lenok
  \/ a.sev
  \/ a.id # rid[t]
  \/ (a.code # "PENDING_ACK" /\ typed_ack(a, req[t]) # "none")

AckFaults == {"AckLengthError", "AckError", "AckIdError", "AckValueError"}

\* thread t's recv returns a datagram that is rejected
RejectedStep(t) ==
  /\ pc[t] = "recv"
  /\ rx'[t] # rx[t]
  /\ rx'[t] # NoAck
  /\ Rejected(rx'[t], t)

\* C31: retries apply only to receive timeouts: when a reply is received but is
\* malformed or unexpected (wrong declared length, error status, wrong ack-id,
\* wrong ack code) the command is not sent again; the error ends the operation
\* after one transmission per attempt made, and the mutex is released
RejectedAckIsNotRetried ==
  [][\A t \in Threads :
       RejectedStep(t) =>
         /\ result'[t] \in AckFaults
         /\ pc'[t] = (IF t = "caller" THEN "idle" ELSE "dead")
         /\ soc_lock = t /\ soc_lock' = "free"
         /\ xmit[t] = retry[t]
         /\ log' = log]_vars

\* C31 witness: the caller's readreg ended with AckIdError on a datagram carrying
\* a stale request-id, the mutex free, while connected
RejectedAckSurfaced ==
  /\ pc["caller"] = "idle" /\ op["caller"] = "readreg"
  /\ result["caller"] = "AckIdError"
  /\ rx["caller"].id # 0 /\ rx["caller"].lenok /\ ~rx["caller"].sev
  /\ soc_lock = "free"
  /\ connected

\* ------------------------------------------- the stream destination and receiver
\* positions in the log lg of the calls of the gvsp module named in regs / of the
\* writes of the registers named in regs
LogPos(lg, kind, regs) == {i \in DOMAIN lg : lg[i].eff = kind /\ lg[i].reg \in regs}

\* every entry of lg at a position of later comes after an entry of each kind of
\* regs among the entries of kind k
AllBefore(lg, k, regs, later) ==
  \A j \in later : \A r \in regs : \E i \in LogPos(lg, k, {r}) : i < j

DestinationRegs == {"GevSCDAReg", "GevSCPHostPort"}

GentlUntouched == UNCHANGED <<intf_open, intf_req_id, existing_devs, open_devs, sys_open, closed_intfs>>

\* the call of this step raised RuntimeError, sent nothing and changed nothing
RefusedClosed == gt_result' = "RuntimeError" /\ gt_sent' = <<>> /\ GentlUntouched

DiscoverClosesUnneeded ==
  [][(DiscoverStep /\ gt_result' = "ok") =>
       /\ \A i \in IntfIds : intf_open'[i] <=> open_devs'[i] # {}
       /\ gt_ret'.device # <<>> =>
            /\ intf_open'[gt_ret'.intf]
            /\ gt_ret'.device \in open_devs'[gt_ret'.intf]
       /\ \A i \in IntfIds : has_normal_ip(i) =>
            /\ \E k \in DOMAIN gt_sent' :
                 /\ gt_sent'[k].intf = i /\ gt_sent'[k].soc = 1
                 /\ SentId(gt_sent'[k].data) = IF intf_open[i] THEN intf_req_id[i] ELSE 1
            /\ intf_open'[i] =>
                 intf_req_id'[i] = Advance(IF intf_open[i] THEN intf_req_id[i] ELSE 1, Len(HostAddrs[i]))]_vars

\* C40 witness: discover returned the camera of eth1 through the interface object
\* that was open before the call, whose allocator went on from 2, and closed the
\* other interfaces
DiscoverReusedInterface ==
  /\ gt_call.op = "discover" /\ gt_result = "ok"
  /\ gt_ret.intf = "eth1" /\ gt_ret.device \in open_devs["eth1"]
  /\ intf_open = [i \in IntfIds |-> i = "eth1"]
  /\ intf_req_id["eth1"] = 3
  /\ \E k \in DOMAIN gt_sent : gt_sent[k].intf = "eth1" /\ SentId(gt_sent[k].data) = 2

\* ----------------------------------------------------- the connection mutex
\* C35 (as claimed): every path that acquires the connection mutex releases it,
\* exception paths included: under no interleaving of connect, disconnect, the
\* requests and the heartbeat thread is the mutex held by a thread that is not
\* inside the operation that acquired it (so that a later connect or request is
\* not blocked for ever)
MutexReleasedAtEnd ==
  \A t \in Threads : soc_lock = t => pc[t] \in {"send", "recv"}

\* ------------------------------------------------- disconnect and the heartbeat
\* C36 (as claimed): a disconnect of a connection with a heartbeat thread whose
\* WRITEREG(CCP <- 0) was acknowledged returns normally and leaves the connection
\* disconnected, however the heartbeat thread's steps fall between its own
\* (the heartbeat reading CCP = 0 after the release write included)
AckedDisconnectReturns ==
  [][(/\ op["caller"] = "disconnect"
      /\ heartbeat_thread
      /\ pc["caller"] \in {"join", "disconnect_close"}
      /\ pc'["caller"] = "idle")
       => (result'["caller"] = "ok" /\ soc' = "None")]_vars

\* C37 (as claimed): whenever the heartbeat thread terminates for a reason other
\* than a disconnect request (an exception of its READREG(CCP) included), the
\* socket is closed and the connection is disconnected, so that the connection
\* never reports connected with no heartbeat running
HeartbeatEndDisconnects ==
  [][(pc["heartbeat"] \notin Terminated /\ pc'["heartbeat"] \in {"lost", "dead"})
       => soc' = "None"]_vars

\* C38 (as claimed): a connect that raises an error of its own (a timeout or an
\* ack error of one of its three requests, or a CCP value other than 2) leaves
\* the connection disconnected, with the socket closed and no heartbeat thread
\* running, so that the next connect does not raise IsConnectedError
FailedConnectDisconnected ==
  [][(/\ op["caller"] = "connect"
      /\ pc["caller"] # "idle"
      /\ pc'["caller"] = "idle"
      /\ result'["caller"] # "ok")
       => (soc' = "None" /\ nOpen' = 0 /\ pc'["heartbeat"] \in Terminated)]_vars

\* C39 (as claimed): on an established connection, an ack of an earlier request
\* that is still queued on the socket (it carries the request-id handed out
\* before) does not make the request in progress fail: the request goes on
\* waiting for the ack that carries its own request-id
StaleAckSkipped ==
  [][\A t \in Threads :
       (/\ op[t] # "connect"
        /\ pc[t] = "recv"
        /\ rx'[t] # rx[t]
        /\ rx'[t].id = StaleId(rid[t]))
         => (pc'[t] = "recv" /\ soc_lock' = t)]_vars
====
